---- MODULE Spec2Model ----
(***************************************************************************)
(* Model of the access-control and dispatch core of arca-gateway:          *)
(*   - the sliding-window rate limiter (internal/middleware/ratelimit.go), *)
(*   - the bridge client's retry loop  (internal/mcp/client.go),           *)
(*   - the token service and the authentication middleware                 *)
(*     (internal/mcp/client.go, package auth; internal/middleware/auth.go).*)
(* Each component has its own specification over the shared variables; a   *)
(* component's actions leave the other components' variables unchanged.    *)
(***************************************************************************)
EXTENDS Integers, Sequences, FiniteSets, TLC

(***************************************************************************)
(* Bounds of the model.                                                    *)
(***************************************************************************)
NProcs == 2      \* request goroutines that may be inside Allow at once
MaxCalls == 3    \* Allow calls started in one behaviour
MaxCallsCleanup == 2   \* the same, in behaviours with the cleanup goroutine
MaxTime == 3     \* last value of the wall clock

(***************************************************************************)
(* Rate limiter configuration (RateLimiter.limit, RateLimiter.windowSize). *)
(***************************************************************************)
Limit == 2
WindowSize == 2

Procs == 1..NProcs
Keys == {"A", "B"}

\* config.CustomLimits, looked up by key in RateLimitMiddleware: key "A" has no
\* entry (customLimit stays 0), key "B" has a custom limit.
CustomLimitB == 1
CustomLimitOf(k) == IF k = "B" THEN CustomLimitB ELSE 0

\* Mutex holders: 0 is an unlocked mutex, Cleaner the cleanup goroutine,
\* a positive number the request goroutine of that number.
Cleaner == -1
NoWindow == 0

VARIABLES
    clock,      \* time.Now()
    requests,   \* rl.requests: key -> index into windows, NoWindow when absent
    windows,    \* every *slidingWindow allocated so far: [timestamps, mu]
    rlmu,       \* holder of rl.mu
    allow,      \* per goroutine: position in Allow and its locals
    cleaner,    \* the cleanup goroutine: position, now, keys left in the range
    calls       \* history: one record per Allow call, in the order they began

VARIABLES
    stopCleanup \* rl.stopCleanup: the channel, and what its closers met

rlvars == <<clock, requests, windows, rlmu, allow, cleaner, calls, stopCleanup>>

VARIABLES
    exec        \* one execute call of the bridge client

VARIABLES
    req         \* one request passing through the authentication middleware

VARIABLES
    tok         \* one token handed to the token service, and what came back

VARIABLES
    gate        \* one request passing through an authorization middleware

VARIABLES
    hreq        \* one request to a hunting or monitor route, through its whole chain

VARIABLES
    plan        \* one limit lookup of the middleware built by TenantRateLimitMiddleware

VARIABLES
    env         \* one authenticated request and the envelopes sent downstream for it

vars == <<clock, requests, windows, rlmu, allow, cleaner, calls, stopCleanup, exec, req,
          tok, gate, hreq, plan, env>>

\* What the rate limiter does not touch.
others == <<exec, req, tok, gate, hreq, plan, env>>

Range(s) == {s[i] : i \in 1..Len(s)}

(***************************************************************************)
(* Rate limiter: pure parts of Allow and cleanup.                          *)
(***************************************************************************)

\* A filter that drops nothing.
FilterWindowKeepAll(ts, cutoff) == ts

\* ts.After(cutoff) keeps the timestamps strictly later than cutoff.
FilterWindow(ts, cutoff) == SelectSeq(ts, LAMBDA t : t > cutoff)

\* limit := rl.limit; if customLimit > 0 { limit = customLimit }
EffectiveLimit(customLimit) == IF customLimit > 0 THEN customLimit ELSE Limit

\* remaining := limit - len(window.timestamps)
Remaining(limit, ts) == limit - Len(ts)

\* resetIn of a rejected call.
ResetIn(ts, now) == IF Len(ts) > 0 THEN (ts[1] + WindowSize) - now ELSE WindowSize

\* string(rune(n)): the one-character string of code point n, U+FFFD when n
\* is no code point or a surrogate.
RuneString(n) ==
    [rune |-> IF n \in 0..1114111 /\ n \notin 55296..57343 THEN n ELSE 65533]

\* RateLimitMiddleware lines 188-198, with the clock counting seconds: the
\* headers, then 429 for a rejected request and c.Next() (status 0 here) for
\* an admitted one.
NoHeader == [rune |-> -1]
NoResponse ==
    [status |-> 0, limitHeader |-> NoHeader, remainingHeader |-> NoHeader,
     retryAfter |-> NoHeader]
RateLimitResponse(allowed, remaining, resetIn) ==
    [status |-> IF allowed THEN 0 ELSE 429,
     limitHeader |-> RuneString(Limit),
     remainingHeader |-> RuneString(remaining),
     retryAfter |-> IF allowed THEN NoHeader ELSE RuneString(resetIn)]

\* A mutex that never makes a goroutine wait.
CanLockAlways(holder) == TRUE

\* sync.Mutex.Lock proceeds only on an unlocked mutex.
CanLock(holder) == holder = 0

IdleAllow ==
    [pc |-> "idle", key |-> "A", limit |-> 0, now |-> 0, cutoff |-> 0,
     win |-> NoWindow, remaining |-> 0, cid |-> 0]

IdleCleaner == [pc |-> "idle", now |-> 0, todo |-> {}]

\* make(chan struct{}): open, and no close of it has panicked.
OpenChannel == [closed |-> FALSE, panicked |-> FALSE]

InitLimiter ==
    /\ clock = 0
    /\ requests = [k \in Keys |-> NoWindow]
    /\ windows = <<>>
    /\ rlmu = 0
    /\ allow = [p \in Procs |-> IdleAllow]
    /\ cleaner = IdleCleaner
    /\ calls = <<>>
    /\ stopCleanup = OpenChannel

\* The wall clock advances.
Tick ==
    /\ clock < MaxTime
    /\ clock' = clock + 1
    /\ UNCHANGED <<requests, windows, rlmu, allow, cleaner, calls, stopCleanup>>
    /\ UNCHANGED others

----
(***************************************************************************)
(* Allow(key, customLimit), one action per statement group. rl.mu is held  *)
(* by Allow only inside AllowTable, so it is free before and after it.     *)
(***************************************************************************)

\* Lines 110-116: now, cutoff and limit are read before any lock is taken. The
\* caller, RateLimitMiddleware, passes the custom limit configured for the key.
\* Request goroutines are anonymous: a new call runs in the lowest free one.
AllowBegin(p, k, cap) ==
    /\ allow[p].pc = "idle"
    /\ \A q \in Procs : q < p => allow[q].pc # "idle"
    /\ Len(calls) < cap
    /\ LET inflight == {q \in Procs \ {p} : allow[q].pc # "idle" /\ allow[q].key = k}
           marked == [i \in 1..Len(calls) |->
                        IF \E q \in inflight : allow[q].cid = i
                        THEN [calls[i] EXCEPT !.overlap = TRUE]
                        ELSE calls[i]]
       IN /\ allow' = [allow EXCEPT ![p] =
                 [pc |-> "mu", key |-> k, limit |-> EffectiveLimit(CustomLimitOf(k)),
                  now |-> clock, cutoff |-> clock - WindowSize,
                  win |-> NoWindow, remaining |-> 0, cid |-> Len(calls) + 1]]
          /\ calls' = Append(marked,
                 [key |-> k, limit |-> EffectiveLimit(CustomLimitOf(k)), now |-> clock,
                  overlap |-> inflight # {}, status |-> "running",
                  remaining |-> 0, resetIn |-> 0, response |-> NoResponse])
    /\ UNCHANGED <<clock, requests, windows, rlmu, cleaner, stopCleanup>>
    /\ UNCHANGED others

\* A table in which every key is given the same window.
AllowTableShared(p) ==
    /\ allow[p].pc = "mu"
    /\ CanLock(rlmu)
    /\ windows' = IF Len(windows) = 0
                  THEN <<[timestamps |-> <<>>, mu |-> 0]>>
                  ELSE windows
    /\ requests' = [requests EXCEPT ![allow[p].key] = 1]
    /\ allow' = [allow EXCEPT ![p].pc = "wmu", ![p].win = 1]
    /\ UNCHANGED <<clock, rlmu, cleaner, calls, stopCleanup>>
    /\ UNCHANGED others

\* Lines 118-126: rl.mu.Lock(); look the window up, insert a new one when the
\* key is absent; rl.mu.Unlock().
AllowTable(p) ==
    /\ allow[p].pc = "mu"
    /\ CanLock(rlmu)
    /\ LET k == allow[p].key
       IN IF requests[k] # NoWindow
          THEN /\ allow' = [allow EXCEPT ![p].pc = "wmu", ![p].win = requests[k]]
               /\ UNCHANGED <<requests, windows>>
          ELSE /\ windows' = Append(windows, [timestamps |-> <<>>, mu |-> 0])
               /\ requests' = [requests EXCEPT ![k] = Len(windows) + 1]
               /\ allow' = [allow EXCEPT ![p].pc = "wmu", ![p].win = Len(windows) + 1]
    /\ UNCHANGED <<clock, rlmu, cleaner, calls, stopCleanup>>
    /\ UNCHANGED others

\* Lines 128-138: window.mu.Lock(), then drop the timestamps that are not
\* after cutoff.
AllowFilter(p) ==
    /\ allow[p].pc = "wmu"
    /\ CanLock(windows[allow[p].win].mu)
    /\ windows' = [windows EXCEPT ![allow[p].win] =
                       [timestamps |-> FilterWindow(@.timestamps, allow[p].cutoff),
                        mu |-> p]]
    /\ allow' = [allow EXCEPT ![p].pc = "check"]
    /\ UNCHANGED <<clock, requests, rlmu, cleaner, calls, stopCleanup>>
    /\ UNCHANGED others

\* Line 141: remaining := limit - len(window.timestamps)
AllowCheck(p) ==
    /\ allow[p].pc = "check"
    /\ allow' = [allow EXCEPT ![p].pc = "finish",
                     ![p].remaining =
                         Remaining(allow[p].limit, windows[allow[p].win].timestamps)]
    /\ UNCHANGED <<clock, requests, windows, rlmu, cleaner, calls, stopCleanup>>
    /\ UNCHANGED others

\* A return that leaves the window mutex locked.
UnlockedNever(w, p) == w

\* The deferred window.mu.Unlock() releases the mutex only if this goroutine's
\* lock is the one in force.
Unlocked(w, p) == IF w.mu = p THEN [w EXCEPT !.mu = 0] ELSE w

\* An Allow that records the timestamp of a rejected call too.
AllowFinishRecording(p) ==
    /\ allow[p].pc = "finish"
    /\ LET a == allow[p]
           w == windows[a.win]
       IN /\ windows' = [windows EXCEPT ![a.win] =
                 Unlocked([w EXCEPT !.timestamps = Append(@, a.now)], p)]
          /\ calls' = [calls EXCEPT
                 ![a.cid].status = IF a.remaining <= 0 THEN "rejected" ELSE "admitted",
                 ![a.cid].remaining = IF a.remaining <= 0 THEN 0 ELSE a.remaining - 1,
                 ![a.cid].resetIn = IF a.remaining <= 0
                                    THEN ResetIn(w.timestamps, a.now) ELSE 0]
    /\ allow' = [allow EXCEPT ![p] = IdleAllow]
    /\ UNCHANGED <<clock, requests, rlmu, cleaner, stopCleanup>>
    /\ UNCHANGED others

\* Lines 142-155: reject without recording, or append now and admit; the
\* deferred window.mu.Unlock() runs on return, and RateLimitMiddleware, the
\* caller, answers from what Allow returned.
AllowFinish(p) ==
    /\ allow[p].pc = "finish"
    /\ LET a == allow[p]
           w == windows[a.win]
       IN IF a.remaining <= 0
          THEN /\ windows' = [windows EXCEPT ![a.win] = Unlocked(w, p)]
               /\ calls' = [calls EXCEPT ![a.cid].status = "rejected",
                                         ![a.cid].remaining = 0,
                                         ![a.cid].resetIn = ResetIn(w.timestamps, a.now),
                                         ![a.cid].response =
                                             RateLimitResponse(FALSE, 0,
                                                 ResetIn(w.timestamps, a.now))]
          ELSE /\ windows' = [windows EXCEPT ![a.win] =
                      Unlocked([w EXCEPT !.timestamps = Append(@, a.now)], p)]
               /\ calls' = [calls EXCEPT ![a.cid].status = "admitted",
                                         ![a.cid].remaining = a.remaining - 1,
                                         ![a.cid].resetIn = 0,
                                         ![a.cid].response =
                                             RateLimitResponse(TRUE, a.remaining - 1, 0)]
    /\ allow' = [allow EXCEPT ![p] = IdleAllow]
    /\ UNCHANGED <<clock, requests, rlmu, cleaner, stopCleanup>>
    /\ UNCHANGED others

----
(***************************************************************************)
(* cleanup(): one pass per ticker tick.                                    *)
(***************************************************************************)

\* Lines 75-78: rl.mu.Lock(); now := time.Now(); range over rl.requests.
CleanupBegin ==
    /\ cleaner.pc = "idle"
    /\ CanLock(rlmu)
    /\ rlmu' = Cleaner
    /\ cleaner' = [pc |-> "pass", now |-> clock,
                   todo |-> {k \in Keys : requests[k] # NoWindow}]
    /\ UNCHANGED <<clock, requests, windows, allow, calls, stopCleanup>>
    /\ UNCHANGED others

\* Lines 79-94, one key of the range: window.mu.Lock(), filter the window,
\* delete the key when the window is empty, window.mu.Unlock().
CleanupWindow(k) ==
    /\ cleaner.pc = "pass"
    /\ k \in cleaner.todo
    /\ CanLock(windows[requests[k]].mu)
    /\ LET w == requests[k]
           kept == FilterWindow(windows[w].timestamps, cleaner.now - WindowSize)
       IN /\ windows' = [windows EXCEPT ![w] = [timestamps |-> kept, mu |-> 0]]
          /\ requests' = IF Len(kept) = 0
                         THEN [requests EXCEPT ![k] = NoWindow]
                         ELSE requests
          /\ cleaner' = [cleaner EXCEPT !.todo = @ \ {k}]
    /\ UNCHANGED <<clock, rlmu, allow, calls, stopCleanup>>
    /\ UNCHANGED others

\* Line 96: rl.mu.Unlock() after the range.
CleanupEnd ==
    /\ cleaner.pc = "pass"
    /\ cleaner.todo = {}
    /\ rlmu' = 0
    /\ cleaner' = IdleCleaner
    /\ UNCHANGED <<clock, requests, windows, allow, calls, stopCleanup>>
    /\ UNCHANGED others

\* Lines 97-98: the select takes case <-rl.stopCleanup, ready once the channel
\* is closed, and the goroutine returns. With the ticker ready too the select
\* may take either case, so CleanupBegin stays possible until this step.
CleanupExit ==
    /\ cleaner.pc = "idle"
    /\ stopCleanup.closed
    /\ cleaner' = [IdleCleaner EXCEPT !.pc = "stopped"]
    /\ UNCHANGED <<clock, requests, windows, rlmu, allow, calls, stopCleanup>>
    /\ UNCHANGED others

\* Stop(), line 105: close(rl.stopCleanup). close of a closed channel panics
\* in the goroutine that called Stop; the model follows one such panic.
Stop ==
    /\ ~stopCleanup.panicked
    /\ stopCleanup' = IF stopCleanup.closed
                      THEN [stopCleanup EXCEPT !.panicked = TRUE]
                      ELSE [stopCleanup EXCEPT !.closed = TRUE]
    /\ UNCHANGED <<clock, requests, windows, rlmu, allow, cleaner, calls>>
    /\ UNCHANGED others

----
----
(***************************************************************************)
(* Bridge client: NewMCPClient, doRequest and the retry loop of execute.   *)
(***************************************************************************)

MaxRetriesCfg == 2      \* largest MCPConfig.MaxRetries the model configures
MaxRetryDelayCfg == 2   \* largest MCPConfig.RetryDelay the model configures

\* NewMCPClient defaults.
DefaultMaxRetries == 3
DefaultRetryDelay == 1

\* if config.MaxRetries == 0 { config.MaxRetries = 3 }
\* if config.RetryDelay == 0 { config.RetryDelay = 1 * time.Second }
NewMCPClient(cfgRetries, cfgDelay) ==
    [maxRetries |-> IF cfgRetries = 0 THEN DefaultMaxRetries ELSE cfgRetries,
     retryDelay |-> IF cfgDelay = 0 THEN DefaultRetryDelay ELSE cfgDelay]

\* What the downstream engine does with one HTTP request: the connection
\* fails, the body cannot be read, or a status arrives with a body. The body
\* matters only under a 2xx status: a valid envelope with success=true
\* ("ok"), success=false with an error object ("failed"), success=false
\* without one ("failedNoError"), or no valid JSON ("garbage").
OkStatuses == {200, 201, 202}
ErrStatuses == {401, 403, 404, 429, 500}
Bodies == {"ok", "failed", "failedNoError", "garbage"}
NetFail == [net |-> "fail", status |-> 0, body |-> "none"]
Replies ==
    {NetFail, [net |-> "readfail", status |-> 200, body |-> "none"]}
    \cup [net : {"ok"}, status : OkStatuses, body : Bodies]
    \cup [net : {"ok"}, status : ErrStatuses, body : {"none"}]

NoResp == [success |-> FALSE, hasError |-> FALSE]

\* json.Unmarshal of the body into MCPResponse.
ParseBody(body) ==
    [success |-> body = "ok", hasError |-> body = "failed"]

\* doRequest: httpClient.Do fails at once under a context that is done.
DoRequest(ctx, reply) ==
    IF ctx = "done" \/ reply.net = "fail"
        THEN [err |-> "Unavailable", resp |-> NoResp]
    ELSE IF reply.net = "readfail"
        THEN [err |-> "ReadFailed", resp |-> NoResp]
    ELSE IF reply.status \notin OkStatuses
        THEN [err |-> CASE reply.status = 401 -> "Unauthorized"
                        [] reply.status = 403 -> "Forbidden"
                        [] reply.status = 404 -> "NotFound"
                        [] reply.status = 429 -> "RateLimit"
                        [] OTHER -> "Status",
              resp |-> NoResp]
    ELSE IF reply.body = "garbage"
        THEN [err |-> "Unmarshal", resp |-> NoResp]
    ELSE IF ~ParseBody(reply.body).success /\ ParseBody(reply.body).hasError
        THEN [err |-> "MCPError", resp |-> NoResp]
    ELSE [err |-> "none", resp |-> ParseBody(reply.body)]

\* A retry loop that stops on Unauthorized alone.
IsTerminalNoForbidden(err) == err = "Unauthorized"

\* errors.Is(err, ErrMCPUnauthorized) || errors.Is(err, ErrMCPForbidden)
IsTerminal(err) == err \in {"Unauthorized", "Forbidden"}

\* A retry loop that stops one attempt early.
LoopContinuesStrict(attempt, maxRetries) == attempt < maxRetries

\* for attempt := 0; attempt <= c.maxRetries; attempt++
LoopContinues(attempt, maxRetries) == attempt <= maxRetries

\* A backoff that does not grow with the attempt number.
BackoffConstant(retryDelay, attempt) == retryDelay

\* time.Sleep(c.retryDelay * time.Duration(attempt))
Backoff(retryDelay, attempt) == retryDelay * attempt

\* fmt.Errorf("MCP request failed after %d attempts: %w", c.maxRetries+1, lastErr)
Exhausted(maxRetries, lastErr) ==
    [kind |-> "exhausted", attempts |-> maxRetries + 1, err |-> lastErr, resp |-> NoResp]

NoResult == [kind |-> "none", attempts |-> 0, err |-> "none", resp |-> NoResp]

\* config is the MCPConfig the client was constructed from.
IdleExec ==
    [pc |-> "idle", config |-> [MaxRetries |-> 0, RetryDelay |-> 0],
     maxRetries |-> 0, retryDelay |-> 0, attempt |-> 0,
     ctx |-> "live", outcomes |-> <<>>, sleeps |-> <<>>, result |-> NoResult]

InitBridge == exec = IdleExec

\* A client is constructed and execute is entered: attempt 0 is not preceded
\* by a sleep.
ExecStart(cfgRetries, cfgDelay) ==
    /\ exec.pc = "idle"
    /\ LET c == NewMCPClient(cfgRetries, cfgDelay)
       IN exec' = [exec EXCEPT !.pc = "request",
                                !.config = [MaxRetries |-> cfgRetries,
                                            RetryDelay |-> cfgDelay],
                                !.maxRetries = c.maxRetries,
                                !.retryDelay = c.retryDelay]
    /\ UNCHANGED rlvars
    /\ UNCHANGED <<req, tok, gate, hreq, plan, env>>

\* The caller's context is cancelled or its deadline elapses.
ExecCancel ==
    /\ exec.pc \in {"sleep", "request"}
    /\ exec.ctx = "live"
    /\ exec' = [exec EXCEPT !.ctx = "done"]
    /\ UNCHANGED rlvars
    /\ UNCHANGED <<req, tok, gate, hreq, plan, env>>

\* Lines 416-418: the backoff sleep before a retry; time.Sleep does not look
\* at the context.
ExecSleep ==
    /\ exec.pc = "sleep"
    /\ exec' = [exec EXCEPT !.pc = "request",
                   !.sleeps = Append(@, [dur |-> Backoff(exec.retryDelay, exec.attempt),
                                         cancelled |-> exec.ctx = "done"])]
    /\ UNCHANGED rlvars
    /\ UNCHANGED <<req, tok, gate, hreq, plan, env>>

\* Lines 420-433: one doRequest and what the loop does with its outcome.
ExecRequest(reply) ==
    /\ exec.pc = "request"
    /\ exec.ctx = "done" => reply = NetFail    \* no reply is read
    /\ LET r == DoRequest(exec.ctx, reply)
           made == Append(exec.outcomes,
                          [reply |-> reply, err |-> r.err, cancelled |-> exec.ctx = "done"])
       IN IF r.err = "none"
          THEN exec' = [exec EXCEPT !.pc = "done", !.outcomes = made,
                           !.result = [kind |-> "response", attempts |-> 0,
                                       err |-> "none", resp |-> r.resp]]
          ELSE IF IsTerminal(r.err)
          THEN exec' = [exec EXCEPT !.pc = "done", !.outcomes = made,
                           !.result = [kind |-> "error", attempts |-> 0,
                                       err |-> r.err, resp |-> NoResp]]
          ELSE IF LoopContinues(exec.attempt + 1, exec.maxRetries)
          THEN exec' = [exec EXCEPT !.pc = "sleep", !.outcomes = made,
                           !.attempt = @ + 1]
          ELSE exec' = [exec EXCEPT !.pc = "done", !.outcomes = made,
                           !.attempt = @ + 1,
                           !.result = Exhausted(exec.maxRetries, r.err)]
    /\ UNCHANGED rlvars
    /\ UNCHANGED <<req, tok, gate, hreq, plan, env>>

NextBridge ==
    \/ \E cfgRetries \in 0..MaxRetriesCfg, cfgDelay \in 0..MaxRetryDelayCfg :
           ExecStart(cfgRetries, cfgDelay)
    \/ ExecCancel
    \/ ExecSleep
    \/ \E reply \in Replies : ExecRequest(reply)

----
(***************************************************************************)
(* Token service (package auth) and the authentication middleware.         *)
(***************************************************************************)

\* models.Role, models.Scope (a sample of each), and the tenant and user
\* UUIDs of the model.
RoleAdmin == "admin"
Roles == {RoleAdmin, "analyst", "viewer"}
ScopeHuntingRead == "hunting:read"
ScopeHuntingWrite == "hunting:write"
ScopeMonitorRead == "monitor:read"
Scopes == {ScopeHuntingRead, ScopeHuntingWrite, ScopeMonitorRead}
Tenants == {"t1", "t2"}
UserIDs == {"u1", "u2"}

\* models.User, by the fields generateToken copies into the claims (Email and
\* Name travel the same way as Role and are left out).
Users == [id : UserIDs, tenant : Tenants, role : Roles, scopes : SUBSET Scopes]
Viewer ==
    [id |-> "u1", tenant |-> "t1", role |-> "viewer", scopes |-> {ScopeHuntingRead}]
Analyst ==
    [id |-> "u2", tenant |-> "t2", role |-> "analyst",
     scopes |-> {ScopeHuntingRead, ScopeHuntingWrite}]
Admin == [id |-> "u2", tenant |-> "t1", role |-> RoleAdmin, scopes |-> {}]
TokenUsers == {Viewer, Analyst, Admin}

\* JWTManager configuration: issuer, audience, accessExpiry, refreshExpiry
\* (in clock ticks), and the expiries asked of GenerateAPIToken.
Issuer == "arca-gateway"
Audience == "arca-platform"
AccessExpiry == 2
RefreshExpiry == 3
APIExpiries == {AccessExpiry, RefreshExpiry}

\* A token string, by what the JWT parser finds in it: whether it has the
\* three-segment JWT form at all, the alg its header declares, the key its
\* signature verifies under with that alg ("secret" is the JWTManager's
\* secret), and the claims: exp, token_type, iss, aud and the user's fields.
Algs == {"HS256", "HS384", "HS512", "RS256", "none"}
TokenKinds == {"access", "refresh", "api", ""}
GarbageToken ==
    [form |-> "garbage", alg |-> "none", sigKey |-> "other", exp |-> 0, kind |-> "",
     iss |-> "", aud |-> "", user |-> Viewer]
\* The empty string returned next to an error.
NoToken == [GarbageToken EXCEPT !.form = "empty"]

\* The tokens sent to the authentication middleware: exp is either the
\* current instant (expired) or that of a token issued just now.
Tokens ==
    {GarbageToken}
    \cup [form : {"jwt"}, alg : Algs, sigKey : {"secret", "other"},
          exp : {0, AccessExpiry}, kind : TokenKinds,
          iss : {Issuer}, aud : {Audience}, user : {Viewer}]

\* The tokens handed to the token service directly.
PresentedTokens ==
    {GarbageToken}
    \cup [form : {"jwt"}, alg : Algs, sigKey : {"secret", "other"},
          exp : 0..MaxTime, kind : TokenKinds,
          iss : {Issuer, "other-issuer"}, aud : {Audience, "other-audience"},
          user : TokenUsers]

\* TokenTypeAccess, TokenTypeRefresh, TokenTypeAPI
TokenTypeAccess == "access"
TokenTypeRefresh == "refresh"
TokenTypeAPI == "api"

\* generateToken: claims from the user, Issuer, Audience and
\* ExpiresAt = now + expiry; jwt.NewWithClaims(jwt.SigningMethodHS256, claims)
\* signed with m.secret.
GenerateToken(user, tokenType, now, expiry) ==
    [form |-> "jwt", alg |-> "HS256", sigKey |-> "secret", exp |-> now + expiry,
     kind |-> tokenType, iss |-> Issuer, aud |-> Audience, user |-> user]

GenerateAccessToken(user, now) == GenerateToken(user, TokenTypeAccess, now, AccessExpiry)
GenerateRefreshToken(user, now) == GenerateToken(user, TokenTypeRefresh, now, RefreshExpiry)
GenerateAPIToken(user, now, expiry) == GenerateToken(user, TokenTypeAPI, now, expiry)

\* Claims with the scopes left behind.
ClaimsOfNoScopes(token) ==
    [kind |-> token.kind, userID |-> token.user.id, tenantID |-> token.user.tenant,
     role |-> token.user.role, scopes |-> {},
     issuer |-> token.iss, audience |-> token.aud]

\* The *Claims that the parser fills from the token's payload.
NoClaims ==
    [kind |-> "none", userID |-> "none", tenantID |-> "none", role |-> "none",
     scopes |-> {}, issuer |-> "none", audience |-> "none"]
ClaimsOf(token) ==
    [kind |-> token.kind, userID |-> token.user.id, tenantID |-> token.user.tenant,
     role |-> token.user.role, scopes |-> token.user.scopes,
     issuer |-> token.iss, audience |-> token.aud]

\* The key function of ValidateToken: token.Method.(*jwt.SigningMethodHMAC)
\* succeeds for every method of the HMAC family.
MethodIsHMAC(alg) == alg \in {"HS256", "HS384", "HS512"}

\* jwt.ParseWithClaims(tokenString, &Claims{}, keyFunc) with no parser option:
\* it parses the token, runs the key function, verifies the signature with the
\* method the header declares and then validates the registered claims, of
\* which exp is the one a token of the model can fail (now must be before
\* exp). Issuer and audience are compared with nothing.
ParseWithClaims(token, now) ==
    IF token.form # "jwt" THEN "ErrTokenMalformed"
    ELSE IF ~MethodIsHMAC(token.alg) THEN "ErrTokenUnverifiable"
    ELSE IF token.sigKey # "secret" THEN "ErrTokenSignatureInvalid"
    ELSE IF ~(now < token.exp) THEN "ErrTokenExpired"
    ELSE "none"

\* A mapping of parse errors that tells no expiry apart.
ParseErrorKindNoExpiry(err) == "ErrInvalidToken"

\* ValidateToken lines 653-658: only an expiry error is told apart.
ParseErrorKind(err) ==
    IF err = "ErrTokenExpired" THEN "ErrExpiredToken" ELSE "ErrInvalidToken"

\* ValidateToken. With a nil parse error token.Valid is true and the claims
\* are the *Claims passed in, so line 662 returns nothing.
ValidateToken(token, now) ==
    LET err == ParseWithClaims(token, now)
    IN IF err # "none"
       THEN [err |-> ParseErrorKind(err), claims |-> NoClaims]
       ELSE [err |-> "none", claims |-> ClaimsOf(token)]

\* A kind check that turns away access tokens only.
IsRefreshKindNotAccess(kind) == kind # TokenTypeAccess

\* RefreshAccessToken line 675
IsRefreshKind(kind) == kind = TokenTypeRefresh

\* RefreshAccessToken lines 680-687: the temporary user built from the claims.
UserOfClaims(claims) ==
    [id |-> claims.userID, tenant |-> claims.tenantID, role |-> claims.role,
     scopes |-> claims.scopes]

\* RefreshAccessToken
RefreshAccessToken(token, now) ==
    LET v == ValidateToken(token, now)
    IN IF v.err # "none" THEN [err |-> v.err, token |-> NoToken]
       ELSE IF ~IsRefreshKind(v.claims.kind)
       THEN [err |-> "ErrInvalidToken", token |-> NoToken]
       ELSE [err |-> "none", token |-> GenerateAccessToken(UserOfClaims(v.claims), now)]

\* One use of the token service: a token is issued by one of the Generate
\* functions or arrives from outside, time passes, and the token is handed
\* to ValidateToken or to RefreshAccessToken.
IdleTok ==
    [stage |-> "idle", origin |-> "none", user |-> Viewer, issuedAt |-> 0,
     token |-> NoToken, at |-> 0,
     result |-> [err |-> "none", claims |-> NoClaims],
     refreshed |-> [err |-> "none", token |-> NoToken]]

InitToken == tok = IdleTok

Held(origin, user, token) ==
    [tok EXCEPT !.stage = "held", !.origin = origin, !.user = user,
                !.issuedAt = clock, !.token = token]

\* GenerateAccessToken(user)
TokenGenerateAccess(user) ==
    /\ tok.stage = "idle"
    /\ tok' = Held("GenerateAccessToken", user, GenerateAccessToken(user, clock))
    /\ UNCHANGED rlvars
    /\ UNCHANGED <<exec, req, gate, hreq, plan, env>>

\* GenerateRefreshToken(user)
TokenGenerateRefresh(user) ==
    /\ tok.stage = "idle"
    /\ tok' = Held("GenerateRefreshToken", user, GenerateRefreshToken(user, clock))
    /\ UNCHANGED rlvars
    /\ UNCHANGED <<exec, req, gate, hreq, plan, env>>

\* GenerateAPIToken(user, expiry)
TokenGenerateAPI(user, expiry) ==
    /\ tok.stage = "idle"
    /\ tok' = Held("GenerateAPIToken", user, GenerateAPIToken(user, clock, expiry))
    /\ UNCHANGED rlvars
    /\ UNCHANGED <<exec, req, gate, hreq, plan, env>>

\* A token string that some client sends.
TokenPresent(token) ==
    /\ tok.stage = "idle"
    /\ tok' = Held("presented", token.user, token)
    /\ UNCHANGED rlvars
    /\ UNCHANGED <<exec, req, gate, hreq, plan, env>>

\* ValidateToken(tokenString) at the current time.
TokenValidate ==
    /\ tok.stage = "held"
    /\ tok' = [tok EXCEPT !.stage = "validated", !.at = clock,
                          !.result = ValidateToken(tok.token, clock)]
    /\ UNCHANGED rlvars
    /\ UNCHANGED <<exec, req, gate, hreq, plan, env>>

\* RefreshAccessToken(refreshToken) at the current time.
TokenRefresh ==
    /\ tok.stage = "held"
    /\ tok' = [tok EXCEPT !.stage = "refreshed", !.at = clock,
                          !.refreshed = RefreshAccessToken(tok.token, clock)]
    /\ UNCHANGED rlvars
    /\ UNCHANGED <<exec, req, gate, hreq, plan, env>>

NextToken ==
    \/ Tick
    \/ \E user \in TokenUsers : TokenGenerateAccess(user)
    \/ \E user \in TokenUsers : TokenGenerateRefresh(user)
    \/ \E user \in TokenUsers, expiry \in APIExpiries : TokenGenerateAPI(user, expiry)
    \/ \E token \in PresentedTokens : TokenPresent(token)
    \/ TokenValidate
    \/ TokenRefresh

\* An Authorization header: its length, its first len("Bearer ") bytes and
\* the rest.
BearerPrefix == "Bearer "
BearerPrefixLen == 7
AuthHeaders ==
    {[len |-> 0, prefix |-> "", rest |-> GarbageToken],
     [len |-> 4, prefix |-> "Bear", rest |-> GarbageToken],
     [len |-> 12, prefix |-> "Basic x", rest |-> GarbageToken]}
    \cup [len : {BearerPrefixLen + 1}, prefix : {BearerPrefix}, rest : Tokens]

\* ExtractTokenFromHeader
ExtractTokenFromHeader(h) ==
    IF h.len = 0 THEN [err |-> "ErrMissingToken", token |-> GarbageToken]
    ELSE IF h.len < BearerPrefixLen THEN [err |-> "ErrInvalidToken", token |-> GarbageToken]
    ELSE IF h.prefix # BearerPrefix THEN [err |-> "ErrInvalidToken", token |-> GarbageToken]
    ELSE [err |-> "none", token |-> h.rest]

\* Authenticate, lines 48-55: the message of the 401 for a validation error.
ValidationMessage(err) ==
    CASE err = "ErrExpiredToken" -> "Token has expired"
      [] err \in {"ErrInvalidToken", "ErrInvalidClaims"} -> "Invalid token"
      [] OTHER -> "Authentication failed"

\* A kind check that lets every typed token through.
KindAllowedAnyKind(kind) == kind # ""

\* Authenticate, line 59: the token kinds that may make a business call.
KindAllowed(kind) == kind = TokenTypeAccess \/ kind = TokenTypeAPI

\* X-Client-ID: absent, not a UUID, or a UUID.
ClientIDHeaders == {"", "not-a-uuid", "uuid"}

Middlewares == {"Authenticate", "OptionalAuth"}

IdleReq ==
    [stage |-> "idle", mw |-> "Authenticate",
     header |-> [len |-> 0, prefix |-> "", rest |-> GarbageToken], clientHeader |-> "",
     token |-> GarbageToken, claims |-> NoClaims,
     locals |-> [claims |-> NoClaims, clientID |-> "unset"],
     status |-> 0, message |-> "", trace |-> <<>>]

InitAuth == req = IdleReq

\* A request reaches a route guarded by one of the two middlewares.
AuthReceive(mw, h, ch) ==
    /\ req.stage = "idle"
    /\ req' = [req EXCEPT !.stage = "Unauthenticated", !.mw = mw, !.header = h,
                          !.clientHeader = ch]
    /\ UNCHANGED rlvars
    /\ UNCHANGED <<exec, tok, gate, hreq, plan, env>>

Moved(r, stage) == [r EXCEPT !.stage = stage, !.trace = Append(@, stage)]

\* response.Unauthorized(c, message): the chain stops with 401.
Unauthorized(r, message) ==
    [Moved(r, "Rejected") EXCEPT !.status = 401, !.message = message]

\* Authenticate lines 39-43, OptionalAuth lines 84-92.
AuthExtract ==
    /\ req.stage = "Unauthenticated"
    /\ LET x == ExtractTokenFromHeader(req.header)
       IN req' = IF x.err = "none"
                 THEN [Moved(req, "TokenExtracted") EXCEPT !.token = x.token]
                 ELSE IF req.mw = "Authenticate"
                 THEN Unauthorized(req, "Missing or invalid authorization token")
                 ELSE Moved(req, "Dispatched")
    /\ UNCHANGED rlvars
    /\ UNCHANGED <<exec, tok, gate, hreq, plan, env>>

\* Authenticate lines 46-56, OptionalAuth lines 94-97.
AuthValidate ==
    /\ req.stage = "TokenExtracted"
    /\ LET v == ValidateToken(req.token, clock)
       IN req' = IF v.err = "none"
                 THEN [Moved(req, "Validated") EXCEPT !.claims = v.claims]
                 ELSE IF req.mw = "Authenticate"
                 THEN Unauthorized(req, ValidationMessage(v.err))
                 ELSE Moved(req, "Dispatched")
    /\ UNCHANGED rlvars
    /\ UNCHANGED <<exec, tok, gate, hreq, plan, env>>

\* Authenticate lines 59-61. OptionalAuth has no such step.
AuthCheckKind ==
    /\ req.stage = "Validated"
    /\ req.mw = "Authenticate"
    /\ req' = IF KindAllowed(req.claims.kind)
              THEN Moved(req, "Authorized")
              ELSE Unauthorized(req, "Invalid token type")
    /\ UNCHANGED rlvars
    /\ UNCHANGED <<exec, tok, gate, hreq, plan, env>>

\* Authenticate lines 64-75: the claims go into the request context, and
\* X-Client-ID too when it parses as a UUID. OptionalAuth lines 99-103 bind
\* the claims right after validation.
AuthBind ==
    /\ \/ req.mw = "Authenticate" /\ req.stage = "Authorized"
       \/ req.mw = "OptionalAuth" /\ req.stage = "Validated"
    /\ req' = [Moved(req, "Bound") EXCEPT
                  !.locals = [claims |-> req.claims,
                              clientID |-> IF req.mw = "Authenticate" /\ req.clientHeader = "uuid"
                                           THEN "uuid" ELSE "unset"]]
    /\ UNCHANGED rlvars
    /\ UNCHANGED <<exec, tok, gate, hreq, plan, env>>

\* return c.Next()
AuthDispatch ==
    /\ req.stage = "Bound"
    /\ req' = Moved(req, "Dispatched")
    /\ UNCHANGED rlvars
    /\ UNCHANGED <<exec, tok, gate, hreq, plan, env>>

NextAuth ==
    \/ \E mw \in Middlewares, h \in AuthHeaders, ch \in ClientIDHeaders : AuthReceive(mw, h, ch)
    \/ AuthExtract
    \/ AuthValidate
    \/ AuthCheckKind
    \/ AuthBind
    \/ AuthDispatch

----
(***************************************************************************)
(* Authorization middlewares (internal/middleware/auth.go) and the Claims  *)
(* predicates they call (package auth).                                    *)
(***************************************************************************)

MaxRequired == 2   \* longest list of scopes a route requires

\* The variadic scopes ...models.Scope of a route.
RequiredLists == UNION {[1..n -> Scopes] : n \in 0..MaxRequired}

\* Claims.HasScope
HasScope(claims, scope) == scope \in claims.scopes

\* A scope test that looks at the first required scope only.
HasAnyScopeFirstOnly(claims, scopes) == Len(scopes) > 0 /\ HasScope(claims, scopes[1])

\* Claims.HasAnyScope
HasAnyScope(claims, scopes) == \E i \in 1..Len(scopes) : HasScope(claims, scopes[i])

\* A scope test that is content with the first required scope.
HasAllScopesFirstOnly(claims, scopes) == Len(scopes) = 0 \/ HasScope(claims, scopes[1])

\* Claims.HasAllScopes
HasAllScopes(claims, scopes) == \A i \in 1..Len(scopes) : HasScope(claims, scopes[i])

\* Claims.IsAdmin
IsAdmin(claims) == claims.role = RoleAdmin

\* uuid.Parse succeeds on the UUIDs of the model and on nothing else.
UUIDs == Tenants \cup UserIDs \cup {"uuid"}
ParseUUID(s) == [err |-> s \notin UUIDs, id |-> s]

\* What a request may carry as tenant_id path parameter or X-Tenant-ID header,
\* and as client_id path parameter or X-Client-ID header.
TenantStrings == {"", "not-a-uuid"} \cup Tenants

\* The claims that Authenticate may have bound, or none.
GateClaims == {NoClaims} \cup {ClaimsOf(GenerateAccessToken(u, 0)) : u \in Users}

\* scopesToString: the names of the scopes, in order, joined with ", ".
ScopesToString(scopes) == [sep |-> ", ", parts |-> scopes]
NoNames == ScopesToString(<<>>)

\* A response message: a fixed text followed by a list of scope names.
Message(text, names) == [text |-> text, names |-> names]

IdleGate ==
    [stage |-> "idle", mw |-> "none", required |-> <<>>, claims |-> NoClaims,
     param |-> "", header |-> "", clientHeader |-> "",
     locals |-> [tenantID |-> "unset", clientID |-> "unset"],
     status |-> 0, message |-> Message("", NoNames), next |-> FALSE]

InitGate == gate = IdleGate

\* What Authenticate left in the request context: the claims and their tenant
\* and, when the X-Client-ID header is a UUID, the client it names.  A request
\* that Authenticate did not bind carries no claims and neither value.
Received(mw, claims, clientHeader) ==
    LET parsed == ParseUUID(clientHeader)
    IN [IdleGate EXCEPT !.stage = "received", !.mw = mw, !.claims = claims,
                        !.clientHeader = clientHeader,
                        !.locals.tenantID = IF claims = NoClaims THEN "unset"
                                            ELSE claims.tenantID,
                        !.locals.clientID =
                            IF claims # NoClaims /\ clientHeader # "" /\ ~parsed.err
                            THEN parsed.id ELSE "unset"]

\* A request reaches a route guarded by RequireScope(required...) or
\* RequireAllScopes(required...).
GateReceiveScopes(mw, claims, required, clientHeader) ==
    /\ gate.stage = "idle"
    /\ gate' = [Received(mw, claims, clientHeader) EXCEPT !.required = required]
    /\ UNCHANGED rlvars
    /\ UNCHANGED <<exec, req, tok, hreq, plan, env>>

\* A request reaches a route guarded by RequireTenantAccess or
\* RequireClientAccess, with its path parameter, its X-Tenant-ID header and its
\* X-Client-ID header.
GateReceiveID(mw, claims, param, header, clientHeader) ==
    /\ gate.stage = "idle"
    /\ gate' = [Received(mw, claims, clientHeader) EXCEPT
                   !.param = param, !.header = header]
    /\ UNCHANGED rlvars
    /\ UNCHANGED <<exec, req, tok, hreq, plan, env>>

\* c.Next()
Passed(g) == [g EXCEPT !.stage = "done", !.next = TRUE]

\* response.BadRequest, response.Unauthorized, response.Forbidden
Stopped(g, status, text, names) ==
    [g EXCEPT !.stage = "done", !.status = status, !.message = Message(text, names)]

\* RequireScope
RequireScope ==
    /\ gate.stage = "received"
    /\ gate.mw = "RequireScope"
    /\ gate' = IF gate.claims = NoClaims
               THEN Stopped(gate, 401, "Authentication required", NoNames)
               ELSE IF IsAdmin(gate.claims) THEN Passed(gate)
               ELSE IF ~HasAnyScope(gate.claims, gate.required)
               THEN Stopped(gate, 403, "Missing required scope: ",
                            ScopesToString(gate.required))
               ELSE Passed(gate)
    /\ UNCHANGED rlvars
    /\ UNCHANGED <<exec, req, tok, hreq, plan, env>>

\* RequireAllScopes
RequireAllScopes ==
    /\ gate.stage = "received"
    /\ gate.mw = "RequireAllScopes"
    /\ gate' = IF gate.claims = NoClaims
               THEN Stopped(gate, 401, "Authentication required", NoNames)
               ELSE IF IsAdmin(gate.claims) THEN Passed(gate)
               ELSE IF ~HasAllScopes(gate.claims, gate.required)
               THEN Stopped(gate, 403, "Missing required scopes", NoNames)
               ELSE Passed(gate)
    /\ UNCHANGED rlvars
    /\ UNCHANGED <<exec, req, tok, hreq, plan, env>>

\* A tenant test that lets every tenant through.
SameTenantAlways(claims, tenantID) == TRUE

\* RequireTenantAccess line 200
SameTenant(claims, tenantID) == claims.tenantID = tenantID

\* RequireTenantAccess
RequireTenantAccess ==
    /\ gate.stage = "received"
    /\ gate.mw = "RequireTenantAccess"
    /\ LET tenantIDStr == IF gate.param # "" THEN gate.param ELSE gate.header
           parsed == ParseUUID(tenantIDStr)
       IN gate' = IF gate.claims = NoClaims
                  THEN Stopped(gate, 401, "Authentication required", NoNames)
                  ELSE IF tenantIDStr = "" THEN Passed(gate)
                  ELSE IF parsed.err
                  THEN Stopped(gate, 400, "Invalid tenant ID", NoNames)
                  ELSE IF IsAdmin(gate.claims)
                  THEN Passed([gate EXCEPT !.locals.tenantID = parsed.id])
                  ELSE IF ~SameTenant(gate.claims, parsed.id)
                  THEN Stopped(gate, 403, "Access denied to this tenant", NoNames)
                  ELSE Passed(gate)
    /\ UNCHANGED rlvars
    /\ UNCHANGED <<exec, req, tok, hreq, plan, env>>

\* RequireClientAccess
RequireClientAccess ==
    /\ gate.stage = "received"
    /\ gate.mw = "RequireClientAccess"
    /\ LET clientIDStr == IF gate.param # "" THEN gate.param ELSE gate.clientHeader
           parsed == ParseUUID(clientIDStr)
       IN gate' = IF gate.claims = NoClaims
                  THEN Stopped(gate, 401, "Authentication required", NoNames)
                  ELSE IF clientIDStr = "" THEN Passed(gate)
                  ELSE IF parsed.err
                  THEN Stopped(gate, 400, "Invalid client ID", NoNames)
                  ELSE Passed([gate EXCEPT !.locals.clientID = parsed.id])
    /\ UNCHANGED rlvars
    /\ UNCHANGED <<exec, req, tok, hreq, plan, env>>

NextGate ==
    \/ \E mw \in {"RequireScope", "RequireAllScopes"}, claims \in GateClaims,
          required \in RequiredLists, clientHeader \in ClientIDHeaders :
          GateReceiveScopes(mw, claims, required, clientHeader)
    \/ \E claims \in GateClaims, param \in TenantStrings, header \in TenantStrings,
          clientHeader \in ClientIDHeaders :
          GateReceiveID("RequireTenantAccess", claims, param, header, clientHeader)
    \/ \E claims \in GateClaims, param \in ClientIDHeaders, header \in TenantStrings,
          clientHeader \in ClientIDHeaders :
          GateReceiveID("RequireClientAccess", claims, param, header, clientHeader)
    \/ RequireScope
    \/ RequireAllScopes
    \/ RequireTenantAccess
    \/ RequireClientAccess

----
(***************************************************************************)
(* The hunting and monitor routes as main registers them: the global       *)
(* middlewares, the group's Authenticate, then the handler, which checks   *)
(* the claims and the scope, validates its input and calls the bridge.     *)
(***************************************************************************)

ScopeAnalyzeWrite == "analyze:write"
ScopeMonitorWrite == "monitor:write"

HandlerRoutes ==
    {"Hunt", "ScanURL", "AnalyzeURL", "SearchLeaks", "CreateMonitorJob", "StopMonitorJob"}

\* The scopes each handler passes to claims.HasAnyScope.
RouteScopes(route) ==
    CASE route \in {"Hunt", "ScanURL"} -> <<ScopeHuntingWrite>>
      [] route = "AnalyzeURL" -> <<ScopeAnalyzeWrite>>
      [] route = "SearchLeaks" -> <<ScopeHuntingRead, ScopeHuntingWrite>>
      [] OTHER -> <<ScopeMonitorWrite>>

\* The middlewares in front of the handler of a hunting or monitor route, in
\* registration order: SetupSecurityMiddlewares and AuditMiddleware on the
\* app, Authenticate on the group.
RouteChain == <<"Global", "Authenticate">>

\* The principals that call these routes.
HandlerUsers ==
    [id : {"u1"}, tenant : {"t1"}, role : {RoleAdmin, "viewer"},
     scopes : SUBSET {ScopeHuntingRead, ScopeHuntingWrite, ScopeAnalyzeWrite,
                      ScopeMonitorWrite}]

\* The Authorization headers they send: none, or Bearer with an access token,
\* a refresh token, an expired token or a token signed by someone else.
MissingHeader == [len |-> 0, prefix |-> "", rest |-> GarbageToken]
RouteTokens ==
    {GenerateAccessToken(u, 0) : u \in HandlerUsers}
    \cup {GenerateRefreshToken(Viewer, 0),
          [GenerateAccessToken(Viewer, 0) EXCEPT !.exp = 0],
          [GenerateAccessToken(Viewer, 0) EXCEPT !.sigKey = "other"]}
RouteHeaders ==
    {MissingHeader}
    \cup [len : {BearerPrefixLen + 1}, prefix : {BearerPrefix}, rest : RouteTokens]

\* Authenticate, start to end: the 401 it answers, or the claims it binds.
AuthenticateResult(h, now) ==
    LET x == ExtractTokenFromHeader(h)
        v == ValidateToken(x.token, now)
    IN IF x.err # "none"
       THEN [status |-> 401, message |-> "Missing or invalid authorization token",
             claims |-> NoClaims]
       ELSE IF v.err # "none"
       THEN [status |-> 401, message |-> ValidationMessage(v.err), claims |-> NoClaims]
       ELSE IF ~KindAllowed(v.claims.kind)
       THEN [status |-> 401, message |-> "Invalid token type", claims |-> NoClaims]
       ELSE [status |-> 0, message |-> "", claims |-> v.claims]

\* MCPResponse.JobID of a successful reply: absent, a UUID, or another string.
JobIDs == {"", "uuid", "not-a-uuid"}

\* What execute has returned to the client method: nothing yet.  Once it
\* returns, the record holds a response with its job_id, Unauthorized or
\* Forbidden as doRequest made it, or the last error wrapped after
\* maxRetries + 1 attempts.
NotCalled == [wrapped |-> FALSE, err |-> "none", attempts |-> 0, jobID |-> ""]

\* The client method between execute and the handler.  Hunt and ScanURL pass a
\* non-empty job_id to uuid.MustParse, which panics on a string that is not a
\* UUID; AnalyzeURL and CreateMonitorJob use uuid.Parse and keep their own id
\* on an error; SearchLeaks and StopMonitorJob do not read job_id.
MustParsePanics(route, result) ==
    /\ route \in {"Hunt", "ScanURL"}
    /\ result.err = "none"
    /\ result.jobID # ""
    /\ ParseUUID(result.jobID).err

\* handleMCPError: switch err compares the error value with the sentinels, so
\* a wrapped error takes the default branch.
HandleMCPError(result) ==
    IF result.wrapped THEN 500
    ELSE CASE result.err = "Unauthorized" -> 401
           [] result.err = "Forbidden" -> 403
           [] result.err = "NotFound" -> 404
           [] result.err = "RateLimit" -> 429
           [] result.err = "Unavailable" -> 503
           [] OTHER -> 500

\* response.Success, or response.Created in CreateMonitorJob.
SuccessStatus(route) == IF route = "CreateMonitorJob" THEN 201 ELSE 200

\* A scope check that lets every caller through.
HandlerAllowsAll(claims, route) == TRUE

\* The handlers' scope check: claims.HasAnyScope(...) || claims.IsAdmin()
HandlerAllows(claims, route) == HasAnyScope(claims, RouteScopes(route)) \/ IsAdmin(claims)

IdleHReq ==
    [stage |-> "idle", route |-> "Hunt", header |-> MissingHeader, input |-> "valid",
     claims |-> NoClaims, status |-> 0, trace |-> <<>>, bridgeCalls |-> 0,
     pc |-> "idle", ctx |-> "live", attempt |-> 0, sleeps |-> <<>>,
     result |-> NotCalled]

InitRoute == hreq = IdleHReq

Step(r, stage) == [r EXCEPT !.stage = stage, !.trace = Append(@, stage)]
Ended(r, stage, status) == [Step(r, stage) EXCEPT !.stage = "done", !.status = status]

\* A request arrives on one of the routes; its body or path parameter is
\* one the handler accepts or one it does not.
RouteReceive(route, h, input) ==
    /\ hreq.stage = "idle"
    /\ hreq' = [hreq EXCEPT !.stage = "received", !.route = route, !.header = h,
                            !.input = input]
    /\ UNCHANGED rlvars
    /\ UNCHANGED <<exec, req, tok, gate, plan, env>>

\* The middlewares registered on the app all call c.Next().
RouteGlobal ==
    /\ hreq.stage = "received"
    /\ hreq' = Step(hreq, RouteChain[1])
    /\ UNCHANGED rlvars
    /\ UNCHANGED <<exec, req, tok, gate, plan, env>>

\* The group's Authenticate.
RouteAuthenticate ==
    /\ hreq.stage = RouteChain[1]
    /\ LET a == AuthenticateResult(hreq.header, clock)
       IN hreq' = IF a.status # 0
                  THEN Ended(hreq, RouteChain[2], a.status)
                  ELSE [Step(hreq, RouteChain[2]) EXCEPT !.claims = a.claims]
    /\ UNCHANGED rlvars
    /\ UNCHANGED <<exec, req, tok, gate, plan, env>>

\* The handler's first lines: getClaims, then the scope check.
HandlerAuthorize ==
    /\ hreq.stage = RouteChain[Len(RouteChain)]
    /\ hreq' = IF hreq.claims = NoClaims THEN Ended(hreq, "Claims", 401)
               ELSE IF ~HandlerAllows(hreq.claims, hreq.route)
               THEN Ended(Step(hreq, "Claims"), "Scope", 403)
               ELSE Step(Step(hreq, "Claims"), "Scope")
    /\ UNCHANGED rlvars
    /\ UNCHANGED <<exec, req, tok, gate, plan, env>>

\* c.BodyParser and the required fields, or uuid.Parse of job_id.
HandlerValidate ==
    /\ hreq.stage = "Scope"
    /\ hreq' = IF hreq.input # "valid" THEN Ended(hreq, "Validate", 400)
               ELSE Step(hreq, "Validate")
    /\ UNCHANGED rlvars
    /\ UNCHANGED <<exec, req, tok, gate, plan, env>>

\* The envelope is built and h.mcpClient's method enters execute with the
\* request's context: attempt 0 is not preceded by a sleep.
HandlerCall ==
    /\ hreq.stage = "Validate"
    /\ hreq' = [Step(hreq, "Bridge") EXCEPT !.bridgeCalls = @ + 1, !.pc = "request"]
    /\ UNCHANGED rlvars
    /\ UNCHANGED <<exec, req, tok, gate, plan, env>>

\* The request's context is done while execute sleeps or waits for the engine.
HandlerCancel ==
    /\ hreq.stage = "Bridge"
    /\ hreq.pc \in {"sleep", "request"}
    /\ hreq.ctx = "live"
    /\ hreq' = [hreq EXCEPT !.ctx = "done"]
    /\ UNCHANGED rlvars
    /\ UNCHANGED <<exec, req, tok, gate, plan, env>>

\* execute lines 416-418: the backoff sleep before a retry.
HandlerSleep ==
    /\ hreq.stage = "Bridge"
    /\ hreq.pc = "sleep"
    /\ hreq' = [hreq EXCEPT
                   !.pc = "request",
                   !.sleeps = Append(@, Backoff(NewMCPClient(MaxRetriesCfg, 0).retryDelay,
                                                hreq.attempt))]
    /\ UNCHANGED rlvars
    /\ UNCHANGED <<exec, req, tok, gate, plan, env>>

\* execute lines 420-433: one doRequest and what the loop does with its
\* outcome.  jobID is the job_id of the reply's body, read only from a body
\* that doRequest returns as a response.
HandlerRequest(reply, jobID) ==
    /\ hreq.stage = "Bridge"
    /\ hreq.pc = "request"
    /\ hreq.ctx = "done" => reply = NetFail    \* no reply is read
    /\ LET r == DoRequest(hreq.ctx, reply)
           n == hreq.attempt + 1
           maxRetries == NewMCPClient(MaxRetriesCfg, 0).maxRetries
       IN /\ r.err # "none" => jobID = ""
          /\ hreq' =
                IF r.err = "none"
                THEN [hreq EXCEPT !.pc = "returned", !.attempt = n,
                         !.result = [wrapped |-> FALSE, err |-> "none",
                                     attempts |-> n, jobID |-> jobID]]
                ELSE IF IsTerminal(r.err)
                THEN [hreq EXCEPT !.pc = "returned", !.attempt = n,
                         !.result = [wrapped |-> FALSE, err |-> r.err,
                                     attempts |-> n, jobID |-> ""]]
                ELSE IF LoopContinues(n, maxRetries)
                THEN [hreq EXCEPT !.pc = "sleep", !.attempt = n]
                ELSE [hreq EXCEPT !.pc = "returned", !.attempt = n,
                         !.result = [wrapped |-> TRUE, err |-> r.err,
                                     attempts |-> maxRetries + 1, jobID |-> ""]]
    /\ UNCHANGED rlvars
    /\ UNCHANGED <<exec, req, tok, gate, plan, env>>

\* The client method converts what execute returned and the handler answers:
\* an error goes through handleMCPError; a panic of the client method is
\* caught by the recover middleware and answered by errorHandler with 500.
HandlerAnswer ==
    /\ hreq.stage = "Bridge"
    /\ hreq.pc = "returned"
    /\ hreq' = [hreq EXCEPT
                   !.stage = "done", !.pc = "done",
                   !.status = IF MustParsePanics(hreq.route, hreq.result) THEN 500
                              ELSE IF hreq.result.err = "none"
                              THEN SuccessStatus(hreq.route)
                              ELSE HandleMCPError(hreq.result)]
    /\ UNCHANGED rlvars
    /\ UNCHANGED <<exec, req, tok, gate, plan, env>>

NextRoute ==
    \/ \E route \in HandlerRoutes, h \in RouteHeaders, input \in {"valid", "invalid"} :
          RouteReceive(route, h, input)
    \/ RouteGlobal
    \/ RouteAuthenticate
    \/ HandlerAuthorize
    \/ HandlerValidate
    \/ HandlerCall
    \/ HandlerCancel
    \/ HandlerSleep
    \/ \E reply \in Replies, jobID \in JobIDs : HandlerRequest(reply, jobID)
    \/ HandlerAnswer

----
(***************************************************************************)
(* TenantRateLimitMiddleware(baseLimits) and the limit that the middleware *)
(* it returns hands to Allow.                                              *)
(***************************************************************************)

Plans == {"free", "starter", "pro", "enterprise"}

\* planLimits as TenantRateLimitMiddleware first fills it.
PlanDefaults ==
    [p \in Plans |->
        CASE p = "free" -> 100
          [] p = "starter" -> 500
          [] p = "pro" -> 2000
          [] OTHER -> 10000]

\* The baseLimits a caller may pass: any subset of the plans, each with one
\* of two values.
BaseLimitsChoices == UNION {[S -> {50, 3000}] : S \in SUBSET Plans}

\* for k, v := range baseLimits { planLimits[k] = v }
MergePlanLimits(baseLimits) ==
    [p \in Plans |-> IF p \in DOMAIN baseLimits THEN baseLimits[p] ELSE PlanDefaults[p]]

\* config.Limit of the RateLimitConfig that TenantRateLimitMiddleware builds.
TenantDefaultLimit == 1000

\* A nil map.
NoCustomLimits == [k \in {} |-> 0]

\* TenantRateLimitMiddleware: planLimits is filled and merged, and the config
\* handed to RateLimitMiddleware has Limit, WindowSize and KeyExtractor only.
TenantRateLimitConfig(baseLimits) ==
    LET planLimits == MergePlanLimits(baseLimits)
    IN [Limit |-> TenantDefaultLimit, CustomLimits |-> NoCustomLimits]

\* KeyExtractor of that config.
TenantKey(tenant) == [prefix |-> "tenant:", id |-> tenant]

\* RateLimitMiddleware lines 178-183: customLimit stays 0 unless
\* config.CustomLimits has the key.
CustomLimitFor(config, key) ==
    IF key \in DOMAIN config.CustomLimits THEN config.CustomLimits[key] ELSE 0

\* Allow lines 113-116, for a limiter built with rl.limit = config.Limit.
EffectiveLimitOf(limit, customLimit) == IF customLimit > 0 THEN customLimit ELSE limit

IdlePlan ==
    [stage |-> "idle", baseLimits |-> NoCustomLimits,
     config |-> [Limit |-> 0, CustomLimits |-> NoCustomLimits],
     tenant |-> "t1", tenantPlan |-> "free", limit |-> 0]

InitPlan == plan = IdlePlan

\* TenantRateLimitMiddleware(baseLimits) is called at start-up.
PlanBuild(baseLimits) ==
    /\ plan.stage = "idle"
    /\ plan' = [plan EXCEPT !.stage = "built", !.baseLimits = baseLimits,
                            !.config = TenantRateLimitConfig(baseLimits)]
    /\ UNCHANGED rlvars
    /\ UNCHANGED <<exec, req, tok, gate, hreq, env>>

\* An authenticated request of a tenant, which is on some plan, reaches the
\* middleware: the key, the custom limit and the limit Allow works with.
PlanRequest(tenant, tenantPlan) ==
    /\ plan.stage = "built"
    /\ plan' = [plan EXCEPT
                   !.stage = "limited", !.tenant = tenant, !.tenantPlan = tenantPlan,
                   !.limit = EffectiveLimitOf(plan.config.Limit,
                                 CustomLimitFor(plan.config, TenantKey(tenant)))]
    /\ UNCHANGED rlvars
    /\ UNCHANGED <<exec, req, tok, gate, hreq, env>>

NextPlan ==
    \/ \E baseLimits \in BaseLimitsChoices : PlanBuild(baseLimits)
    \/ \E tenant \in Tenants, tenantPlan \in Plans : PlanRequest(tenant, tenantPlan)

----
(***************************************************************************)
(* The envelope (mcp.MCPRequest) that the handler of an authenticated      *)
(* route builds, and what doRequest sends of it on each attempt.           *)
(***************************************************************************)

\* The OnboardingHandler routes registered under Authenticate: /v1/brands
\* and /v1/threats.
OnboardingRoutes ==
    {"CreateBrand", "GetBrand", "ListBrands", "StartMonitoring", "StopMonitoring",
     "GetMonitoringStatus", "GetThreats"}
EnvelopeRoutes == HandlerRoutes \cup OnboardingRoutes

\* uuid.Nil, the value of a uuid.UUID field that is not set.
NilUUID == "00000000-0000-0000-0000-000000000000"

\* uuid.New() returns a random UUID: any value, a tenant's id included.
NewUUIDs == Tenants \cup {"fresh"}

\* The callers: admins, whom every handler lets through, and viewers without
\* scopes, whom the onboarding handlers let through.
EnvelopeUsers == [id : UserIDs, tenant : Tenants, role : {RoleAdmin, "viewer"}, scopes : {{}}]

\* The mcpReq literal of the handler: the hunting and monitor handlers copy
\* claims.TenantID and claims.UserID; the onboarding handlers set TenantID to
\* uuid.New() and leave UserID unset.
BuildEnvelope(route, claims, fresh) ==
    IF route \in HandlerRoutes
    THEN [tenant_id |-> claims.tenantID, user_id |-> claims.userID]
    ELSE [tenant_id |-> fresh, user_id |-> NilUUID]

\* doRequest: the body is json.Marshal(req), the X-Tenant-ID header is
\* req.TenantID.String().
SentRequest(envelope) ==
    [tenant_id |-> envelope.tenant_id, user_id |-> envelope.user_id,
     header |-> envelope.tenant_id]

NoEnvelope == [tenant_id |-> NilUUID, user_id |-> NilUUID]

IdleEnv ==
    [stage |-> "idle", route |-> "Hunt", claims |-> NoClaims, envelope |-> NoEnvelope,
     maxRetries |-> 0, sent |-> <<>>]

InitEnv == env = IdleEnv

\* A request with the access token of a user passes Authenticate, which
\* binds the validated claims, and the handler's own checks.
EnvAuthenticated(route, user) ==
    /\ env.stage = "idle"
    /\ LET v == ValidateToken(GenerateAccessToken(user, clock), clock)
       IN /\ v.err = "none"
          /\ route \in HandlerRoutes => HandlerAllows(v.claims, route)
          /\ env' = [env EXCEPT !.stage = "handler", !.route = route,
                                !.claims = v.claims]
    /\ UNCHANGED rlvars
    /\ UNCHANGED <<exec, req, tok, gate, hreq, plan>>

\* The handler builds the envelope and hands it to the bridge client.
EnvBuild(fresh, cfgRetries) ==
    /\ env.stage = "handler"
    /\ env' = [env EXCEPT !.stage = "execute",
                          !.envelope = BuildEnvelope(env.route, env.claims, fresh),
                          !.maxRetries = NewMCPClient(cfgRetries, 0).maxRetries]
    /\ UNCHANGED rlvars
    /\ UNCHANGED <<exec, req, tok, gate, hreq, plan>>

\* One attempt of execute: doRequest sends the envelope it was given.
EnvAttempt ==
    /\ env.stage = "execute"
    /\ LoopContinues(Len(env.sent), env.maxRetries)
    /\ env' = [env EXCEPT !.sent = Append(@, SentRequest(env.envelope))]
    /\ UNCHANGED rlvars
    /\ UNCHANGED <<exec, req, tok, gate, hreq, plan>>

\* execute returns after an attempt.
EnvReturn ==
    /\ env.stage = "execute"
    /\ Len(env.sent) >= 1
    /\ env' = [env EXCEPT !.stage = "done"]
    /\ UNCHANGED rlvars
    /\ UNCHANGED <<exec, req, tok, gate, hreq, plan>>

NextEnvelope ==
    \/ \E route \in EnvelopeRoutes, user \in EnvelopeUsers : EnvAuthenticated(route, user)
    \/ \E fresh \in NewUUIDs, cfgRetries \in 0..MaxRetriesCfg : EnvBuild(fresh, cfgRetries)
    \/ EnvAttempt
    \/ EnvReturn

----
(***************************************************************************)
(* Specifications, one per component.                                      *)
(***************************************************************************)

Init ==
    /\ InitLimiter /\ InitBridge /\ InitAuth /\ InitToken
    /\ InitGate /\ InitRoute /\ InitPlan /\ InitEnv

\* The rate limiter with its cleanup goroutine.
NextLimiter ==
    \/ Tick
    \/ \E p \in Procs, k \in Keys : AllowBegin(p, k, MaxCallsCleanup)
    \/ \E p \in Procs : AllowTable(p)
    \/ \E p \in Procs : AllowFilter(p)
    \/ \E p \in Procs : AllowCheck(p)
    \/ \E p \in Procs : AllowFinish(p)
    \/ CleanupBegin
    \/ \E k \in Keys : CleanupWindow(k)
    \/ CleanupEnd

SpecLimiter == Init /\ [][NextLimiter]_vars

\* The rate limiter, its cleanup goroutine and Stop.
NextStop ==
    \/ Tick
    \/ \E p \in Procs, k \in Keys : AllowBegin(p, k, MaxCallsCleanup)
    \/ \E p \in Procs : AllowTable(p)
    \/ \E p \in Procs : AllowFilter(p)
    \/ \E p \in Procs : AllowCheck(p)
    \/ \E p \in Procs : AllowFinish(p)
    \/ CleanupBegin
    \/ \E k \in Keys : CleanupWindow(k)
    \/ CleanupEnd
    \/ CleanupExit
    \/ Stop

SpecStop == Init /\ [][NextStop]_vars

\* The steps of one goroutine in Allow, and of the cleanup goroutine in a pass.
AllowStep(p) == AllowTable(p) \/ AllowFilter(p) \/ AllowCheck(p) \/ AllowFinish(p)
CleanupStep == (\E k \in Keys : CleanupWindow(k)) \/ CleanupEnd

\* A goroutine blocked in Lock gets the mutex once it has waited long enough
\* (sync.Mutex hands it over in starvation mode) and a goroutine that needs
\* no lock runs on: a goroutine whose next step is possible again and again
\* takes it. A select with a closed stopCleanup among its ready cases takes
\* that case sooner or later. Requests arrive, the clock ticks, the ticker
\* fires and Stop is called as the environment pleases.
FairStop ==
    /\ \A p \in Procs : SF_vars(AllowStep(p))
    /\ SF_vars(CleanupStep)
    /\ SF_vars(CleanupExit)

LiveStop == SpecStop /\ FairStop

\* The rate limiter while no cleanup pass runs.
NextAllowOnly ==
    \/ Tick
    \/ \E p \in Procs, k \in Keys : AllowBegin(p, k, MaxCalls)
    \/ \E p \in Procs : AllowTable(p)
    \/ \E p \in Procs : AllowFilter(p)
    \/ \E p \in Procs : AllowCheck(p)
    \/ \E p \in Procs : AllowFinish(p)

SpecAllowOnly == Init /\ [][NextAllowOnly]_vars

\* One execute call of the bridge client.
SpecBridge == Init /\ [][NextBridge]_vars

\* One request through Authenticate or OptionalAuth.
SpecAuth == Init /\ [][NextAuth]_vars

\* One use of the token service.
SpecToken == Init /\ [][NextToken]_vars

\* One request through one authorization middleware.
SpecGate == Init /\ [][NextGate]_vars

\* One request to a hunting or monitor route.
SpecRoute == Init /\ [][NextRoute]_vars

\* One limit lookup under TenantRateLimitMiddleware.
SpecPlan == Init /\ [][NextPlan]_vars

\* One authenticated request and the envelopes sent for it.
SpecEnvelope == Init /\ [][NextEnvelope]_vars

----
(***************************************************************************)
(* Rate limiter claims.                                                    *)
(***************************************************************************)

Min(a, b) == IF a <= b THEN a ELSE b

LimitOf(k) == EffectiveLimit(CustomLimitOf(k))

\* The Allow calls begun on key k, and the admitted ones among them.
CallsOn(k) == {i \in 1..Len(calls) : calls[i].key = k}
AdmittedOn(k) == {i \in CallsOn(k) : calls[i].status = "admitted"}
Completed(S) == \A i \in S : calls[i].status # "running"

\* All calls of S read `now` inside one window: no timestamp of one is at or
\* before the cutoff of another.
WithinOneWindow(S) == \A i, j \in S : calls[j].now - calls[i].now < WindowSize

\* The n-th smallest element of a set of call numbers is the one with n - 1
\* smaller elements.
Position(i, S) == Cardinality({j \in S : j <= i})

\* C1: no admission is lost. A timestamp appended by an admitted Allow(k) is,
\* for as long as it is younger than windowSize, in the window that the key
\* table holds for k, which is the window every later Allow(k) filters and
\* counts.
C1_NoAdmissionLost ==
    \A i \in 1..Len(calls) :
        (calls[i].status = "admitted" /\ clock - calls[i].now < WindowSize)
            => /\ requests[calls[i].key] # NoWindow
               /\ calls[i].now \in Range(windows[requests[calls[i].key]].timestamps)

\* C2: with no cleanup pass running, the calls on one key that all fall in one
\* window admit at most the limit, no two admitted calls return the same
\* remaining count, and once all N calls have returned exactly min(N, L) of
\* them were admitted.
C2_ConcurrentAdmission ==
    \A k \in Keys :
        WithinOneWindow(CallsOn(k)) =>
            /\ Cardinality(AdmittedOn(k)) <= LimitOf(k)
            /\ \A i, j \in AdmittedOn(k) :
                   i # j => calls[i].remaining # calls[j].remaining
            /\ Completed(CallsOn(k)) =>
                   Cardinality(AdmittedOn(k)) = Min(Cardinality(CallsOn(k)), LimitOf(k))

\* C2 witness: three calls on key "A" (limit 2), two of them inside Allow at
\* the same time, have all returned: two admitted, one rejected.
C2_Witness ==
    /\ Cardinality(CallsOn("A")) = 3
    /\ Completed(CallsOn("A"))
    /\ WithinOneWindow(CallsOn("A"))
    /\ \E i \in CallsOn("A") : calls[i].overlap
    /\ Cardinality(AdmittedOn("A")) = 2

\* C3: sequential calls on a key within one window: call i <= L is admitted
\* with remaining = L - i, every further call is rejected with remaining 0;
\* and a call made once the oldest admitted timestamp is more than windowSize
\* old is admitted again.
C3_SequentialAdmission ==
    \A k \in Keys : \A j \in CallsOn(k) :
        LET upTo == {i \in CallsOn(k) : i <= j}
            before == upTo \ {j}
            first == CHOOSE i \in upTo : \A h \in upTo : i <= h
            n == Position(j, upTo)
        IN (Completed(upTo) /\ \A i \in upTo : ~calls[i].overlap) =>
              /\ WithinOneWindow(upTo) =>
                    IF n <= LimitOf(k)
                    THEN /\ calls[j].status = "admitted"
                         /\ calls[j].remaining = LimitOf(k) - n
                    ELSE /\ calls[j].status = "rejected"
                         /\ calls[j].remaining = 0
              /\ (/\ before # {}
                  /\ WithinOneWindow(before)
                  /\ calls[j].now - calls[first].now > WindowSize)
                    => calls[j].status = "admitted"

----
(***************************************************************************)
(* Bridge client claims.                                                   *)
(***************************************************************************)

Attempts == 1..Len(exec.outcomes)

\* The reply was read (the context was live) and carries the given status.
Answered(i, statuses) ==
    /\ ~exec.outcomes[i].cancelled
    /\ exec.outcomes[i].reply.net = "ok"
    /\ exec.outcomes[i].reply.status \in statuses

\* A 2xx reply whose envelope says success=false.
LogicalFailure(i) ==
    /\ Answered(i, OkStatuses)
    /\ exec.outcomes[i].reply.body \in {"failed", "failedNoError"}

\* C4: an attempt answered 401 or 403 is the last one: execute has returned
\* that very error, and the sleeps are those that preceded the attempt.
C4_AuthErrorsAreTerminal ==
    \A i \in Attempts :
        Answered(i, {401, 403}) =>
            /\ i = Len(exec.outcomes)
            /\ exec.pc = "done"
            /\ exec.result.kind = "error"
            /\ exec.result.err =
                   (IF exec.outcomes[i].reply.status = 401 THEN "Unauthorized" ELSE "Forbidden")
            /\ Len(exec.sleeps) = i - 1

\* C4 witness: a client with retries to spare got 401 on attempt 1 and
\* returned after exactly one attempt, never having slept.
C4_Witness ==
    /\ exec.pc = "done"
    /\ exec.maxRetries > 0
    /\ Len(exec.outcomes) = 1
    /\ Answered(1, {401})
    /\ exec.sleeps = <<>>
    /\ exec.result.err = "Unauthorized"

\* C5: a 2xx reply whose envelope has success=false ends the call: it is the
\* single attempt made for it, execute has returned, and nothing follows.
C5_LogicalFailureNotRetried ==
    \A i \in Attempts :
        LogicalFailure(i) => (i = Len(exec.outcomes) /\ exec.pc = "done")

\* C6: once the context is done execute starts no backoff sleep and makes no
\* retry attempt.
C6_NoRetryAfterCancel ==
    /\ \A i \in 1..Len(exec.sleeps) : ~exec.sleeps[i].cancelled
    /\ \A i \in Attempts : i > 1 => ~exec.outcomes[i].cancelled

\* C7: never more than maxRetries + 1 attempts; when execute has returned and
\* every attempt failed with an error that is retried, there were exactly
\* maxRetries + 1 of them and the result is the last error wrapped with that
\* count.
C7_AttemptBudget ==
    /\ Len(exec.outcomes) <= exec.maxRetries + 1
    /\ (/\ exec.pc = "done"
        /\ \A i \in Attempts : exec.outcomes[i].err \notin {"none", "Unauthorized", "Forbidden"})
           => /\ Len(exec.outcomes) = exec.maxRetries + 1
              /\ exec.result.kind = "exhausted"
              /\ exec.result.attempts = exec.maxRetries + 1
              /\ exec.result.err = exec.outcomes[Len(exec.outcomes)].err

\* C7 witness: a client with maxRetries = 2 has returned after three failed
\* attempts, the last one answered 500.
C7_Witness ==
    /\ exec.pc = "done"
    /\ exec.maxRetries = 2
    /\ Len(exec.outcomes) = 3
    /\ \A i \in Attempts : exec.outcomes[i].err \notin {"none", "Unauthorized", "Forbidden"}
    /\ Answered(3, {500})
    /\ exec.result = Exhausted(2, "Status")

\* C32: an attempt answered 404 is the last one: execute returns after it
\* with no further attempt and no backoff sleep.
C32_NotFoundIsTerminal ==
    \A i \in Attempts :
        Answered(i, {404}) =>
            /\ i = Len(exec.outcomes)
            /\ exec.pc = "done"
            /\ Len(exec.sleeps) = i - 1

RECURSIVE TotalSleep(_)
TotalSleep(sleeps) ==
    IF sleeps = <<>> THEN 0 ELSE Head(sleeps).dur + TotalSleep(Tail(sleeps))

Triangle(r) == (r * (r + 1)) \div 2

\* C33: no sleep precedes attempt 1, the sleep before attempt n + 1 lasts
\* retryDelay * n, and an exhausted call with delay d and maxRetries r has
\* slept d * (1 + 2 + ... + r) in all.
C33_LinearBackoff ==
    /\ Len(exec.outcomes) = 0 => exec.sleeps = <<>>
    /\ Len(exec.sleeps) =
           (IF exec.pc \in {"sleep", "done"} THEN Len(exec.outcomes) - 1
                                             ELSE Len(exec.outcomes))
    /\ \A n \in 1..Len(exec.sleeps) : exec.sleeps[n].dur = exec.retryDelay * n
    /\ exec.result.kind = "exhausted" =>
           TotalSleep(exec.sleeps) >= exec.retryDelay * Triangle(exec.maxRetries)

\* C33 witness: a client with delay 2 and maxRetries 2 is exhausted after
\* sleeping 2 and then 4.
C33_Witness ==
    /\ exec.pc = "done"
    /\ exec.result.kind = "exhausted"
    /\ exec.retryDelay = 2
    /\ exec.maxRetries = 2
    /\ exec.sleeps[1].dur = 2
    /\ exec.sleeps[2].dur = 4
    /\ TotalSleep(exec.sleeps) = 6

\* C34: the first attempt that succeeds is the last one and execute returns
\* its response with no error; execute gives up only after maxRetries + 1
\* failed attempts, so a success on the final attempt is returned too.
C34_SuccessEndsTheLoop ==
    /\ \A i \in Attempts :
           exec.outcomes[i].err = "none" =>
               /\ i = Len(exec.outcomes)
               /\ exec.pc = "done"
               /\ exec.result.kind = "response"
               /\ exec.result.err = "none"
               /\ exec.result.resp.success = (exec.outcomes[i].reply.body = "ok")
    /\ exec.result.kind = "exhausted" => Len(exec.outcomes) = exec.maxRetries + 1
    /\ exec.result.kind = "response" =>
           exec.outcomes[Len(exec.outcomes)].err = "none"

\* C34 witness: with maxRetries = 2 the connection failed twice and the third,
\* final attempt was answered 200 with success=true, which execute returned.
C34_Witness ==
    /\ exec.pc = "done"
    /\ exec.maxRetries = 2
    /\ Len(exec.outcomes) = 3
    /\ exec.outcomes[1].err = "Unavailable"
    /\ exec.outcomes[2].err = "Unavailable"
    /\ Answered(3, {200})
    /\ exec.outcomes[3].reply.body = "ok"
    /\ exec.result.kind = "response"
    /\ exec.result.resp.success

\* C36: execute never returns, as a response without error, an envelope whose
\* success flag is false.
C36_NoUnsuccessfulResponse ==
    exec.result.kind = "response" => exec.result.resp.success

\* C39: a client constructed with MaxRetries = 0 makes one attempt per
\* execute call and never sleeps; execute uses the configured budget.
C39_ZeroRetriesOneAttempt ==
    /\ exec.pc # "idle" => exec.maxRetries = exec.config.MaxRetries
    /\ (exec.pc # "idle" /\ exec.config.MaxRetries = 0) =>
           (Len(exec.outcomes) <= 1 /\ exec.sleeps = <<>>)

----
(***************************************************************************)
(* Token service and authentication middleware claims.                     *)
(***************************************************************************)

Reached(stage) == stage \in Range(req.trace)
Finished == req.stage \in {"Dispatched", "Rejected"}

\* C8: under Authenticate the handler is dispatched only at the end of the
\* chain extract, validate, kind check, bind, with a token that validates and
\* whose kind is access or api and with its claims bound; every rejection is
\* a 401 without dispatch; no token and a valid refresh token both end in 401.
C8_AuthenticateOrder ==
    req.mw = "Authenticate" =>
        /\ Reached("Dispatched") =>
              /\ req.trace = <<"TokenExtracted", "Validated", "Authorized", "Bound", "Dispatched">>
              /\ ExtractTokenFromHeader(req.header).err = "none"
              /\ ValidateToken(req.token, clock).err = "none"
              /\ req.token.kind \in {"access", "api"}
              /\ req.locals.claims = ClaimsOf(req.token)
        /\ Reached("Rejected") =>
              /\ req.stage = "Rejected"
              /\ req.status = 401
              /\ ~Reached("Dispatched")
        /\ (Finished /\ req.header.len = 0) => req.status = 401
        /\ (Finished /\ req.token.kind = "refresh") => req.status = 401

\* C8 witness: an access token issued by GenerateAccessToken went through the
\* whole chain and the handler was dispatched.
C8_Witness ==
    /\ req.mw = "Authenticate"
    /\ req.stage = "Dispatched"
    /\ req.token = GenerateAccessToken(Viewer, clock)
    /\ req.locals.claims.kind = "access"

\* C9: claims bound to the request context are of kind access or api, under
\* both middlewares.
C9_BoundClaimsAccessOrApi ==
    req.locals.claims # NoClaims => req.locals.claims.kind \in {"access", "api"}

\* C10: ValidateToken accepts only tokens whose header declares the algorithm
\* used at issuance.
C10_AlgorithmPinned ==
    Reached("Validated") => req.token.alg = GenerateAccessToken(Viewer, clock).alg


----
(***************************************************************************)
(* Token service claims.                                                   *)
(***************************************************************************)

\* The token handed to the service is a JWT signed by the manager's secret
\* with an HMAC method.
CorrectlySigned(token) ==
    token.form = "jwt" /\ MethodIsHMAC(token.alg) /\ token.sigKey = "secret"

\* The instant of the call was before the token's exp.
Unexpired(token, now) == now < token.exp

\* C11: ValidateToken rejects with ErrInvalidClaims, and without claims, every
\* correctly signed, unexpired token whose issuer or audience differs from
\* the configured one.
C11_IssuerAudienceChecked ==
    (/\ tok.stage = "validated"
     /\ CorrectlySigned(tok.token)
     /\ Unexpired(tok.token, tok.at)
     /\ (tok.token.iss # Issuer \/ tok.token.aud # Audience))
        => (tok.result.err = "ErrInvalidClaims" /\ tok.result.claims = NoClaims)

\* C12: ValidateToken on a correctly signed token whose exp has passed fails
\* with ErrExpiredToken, no other error, and returns no claims.
C12_ExpiredIsExpired ==
    (/\ tok.stage = "validated"
     /\ CorrectlySigned(tok.token)
     /\ ~Unexpired(tok.token, tok.at))
        => (tok.result.err = "ErrExpiredToken" /\ tok.result.claims = NoClaims)

\* C12 witness: a refresh token issued by the manager was validated after
\* its expiry and the answer was ErrExpiredToken.
C12_Witness ==
    /\ tok.stage = "validated"
    /\ tok.origin = "GenerateRefreshToken"
    /\ tok.at >= tok.issuedAt + RefreshExpiry
    /\ tok.result.err = "ErrExpiredToken"
    /\ tok.result.claims = NoClaims

\* C13: ValidateToken on a token signed with another secret fails with
\* ErrInvalidSignature, the error kind of a bad signature alone, and returns
\* no claims.
C13_BadSignatureKind ==
    (/\ tok.stage = "validated"
     /\ tok.token.form = "jwt"
     /\ MethodIsHMAC(tok.token.alg)
     /\ tok.token.sigKey # "secret")
        => (tok.result.err = "ErrInvalidSignature" /\ tok.result.claims = NoClaims)

\* C14: a token issued by GenerateAccessToken(user) and validated before its
\* expiry validates, and the claims carry the user's id, tenant, role and
\* scopes and the kind access.
C14_AccessRoundTrip ==
    (/\ tok.stage = "validated"
     /\ tok.origin = "GenerateAccessToken"
     /\ tok.at < tok.issuedAt + AccessExpiry)
        => /\ tok.result.err = "none"
           /\ tok.result.claims.userID = tok.user.id
           /\ tok.result.claims.tenantID = tok.user.tenant
           /\ tok.result.claims.role = tok.user.role
           /\ tok.result.claims.scopes = tok.user.scopes
           /\ tok.result.claims.kind = "access"

\* C14 witness: the analyst's access token, validated one tick after it was
\* issued, gave back the analyst's two scopes.
C14_Witness ==
    /\ tok.stage = "validated"
    /\ tok.origin = "GenerateAccessToken"
    /\ tok.user = Analyst
    /\ tok.at = tok.issuedAt + 1
    /\ tok.result.err = "none"
    /\ tok.result.claims.scopes = {ScopeHuntingRead, ScopeHuntingWrite}

\* C15: RefreshAccessToken(t) succeeds exactly when t validates and its kind
\* is refresh; a valid access or api token gets an error and no token; the
\* token issued on success is of kind access and carries the user id,
\* tenant, role and scopes of t's claims.
C15_RefreshOnlyFromRefresh ==
    tok.stage = "refreshed" =>
        LET v == ValidateToken(tok.token, tok.at)
            issued == ValidateToken(tok.refreshed.token, tok.at)
        IN /\ (tok.refreshed.err = "none") <=> (v.err = "none" /\ v.claims.kind = "refresh")
           /\ (v.err = "none" /\ v.claims.kind \in {"access", "api"})
                 => (tok.refreshed.err # "none" /\ tok.refreshed.token = NoToken)
           /\ tok.refreshed.err = "none"
                 => /\ issued.err = "none"
                    /\ issued.claims.kind = "access"
                    /\ issued.claims.userID = v.claims.userID
                    /\ issued.claims.tenantID = v.claims.tenantID
                    /\ issued.claims.role = v.claims.role
                    /\ issued.claims.scopes = v.claims.scopes

\* C15 witness: the analyst's refresh token was exchanged one tick after it
\* was issued for an access token of the analyst.
C15_Witness ==
    /\ tok.stage = "refreshed"
    /\ tok.origin = "GenerateRefreshToken"
    /\ tok.user = Analyst
    /\ tok.at = tok.issuedAt + 1
    /\ tok.refreshed.err = "none"
    /\ tok.refreshed.token = GenerateAccessToken(Analyst, tok.at)

----
(***************************************************************************)
(* Authorization middleware claims.                                        *)
(***************************************************************************)

Authenticated == gate.claims # NoClaims
AdminCaller == gate.claims.role = "admin"
Ran(mw) == gate.stage = "done" /\ gate.mw = mw

\* The required scopes the caller holds, and those it does not.
HeldRequired == {s \in Range(gate.required) : s \in gate.claims.scopes}
MissingRequired == Range(gate.required) \ gate.claims.scopes

\* C16: RequireScope(s1..sn) calls the next handler exactly when claims are
\* bound and the caller is admin or holds at least one si; a non-admin
\* holding none gets 403 (so a caller holding only hunting:read on a route
\* requiring hunting:write); a request without claims gets 401.
C16_RequireScopeAny ==
    Ran("RequireScope") =>
        /\ gate.next <=> (Authenticated /\ (AdminCaller \/ HeldRequired # {}))
        /\ (Authenticated /\ ~AdminCaller /\ HeldRequired = {})
              => (gate.status = 403 /\ ~gate.next)
        /\ ~Authenticated => (gate.status = 401 /\ ~gate.next)

\* C16 witness: the viewer, holding only hunting:read, was stopped with 403
\* by RequireScope(hunting:write).
C16_Witness ==
    /\ Ran("RequireScope")
    /\ gate.claims = ClaimsOf(GenerateAccessToken(Viewer, 0))
    /\ gate.required = <<ScopeHuntingWrite>>
    /\ gate.status = 403
    /\ ~gate.next

\* C17: RequireAllScopes(s1..sn) calls the next handler exactly when claims
\* are bound and the caller is admin or holds every si; a non-admin missing
\* any si gets 403.
C17_RequireScopeAll ==
    Ran("RequireAllScopes") =>
        /\ gate.next <=> (Authenticated /\ (AdminCaller \/ MissingRequired = {}))
        /\ (Authenticated /\ ~AdminCaller /\ MissingRequired # {})
              => (gate.status = 403 /\ ~gate.next)

\* C17 witness: the viewer, holding hunting:read but not hunting:write, was
\* stopped with 403 by RequireAllScopes(hunting:read, hunting:write).
C17_Witness ==
    /\ Ran("RequireAllScopes")
    /\ gate.claims = ClaimsOf(GenerateAccessToken(Viewer, 0))
    /\ gate.required = <<ScopeHuntingRead, ScopeHuntingWrite>>
    /\ gate.status = 403
    /\ ~gate.next

\* The tenant (or client) a request names: the tenant_id (client_id) path
\* parameter, or the X-Tenant-ID (X-Client-ID) header when there is no such
\* parameter; "" when neither.
NamedID ==
    IF gate.param # "" THEN gate.param
    ELSE IF gate.mw = "RequireClientAccess" THEN gate.clientHeader
    ELSE gate.header

\* C18: RequireTenantAccess lets a non-admin caller through exactly when the
\* request names no tenant or names the caller's own; a non-admin naming
\* another tenant gets 403 and is not passed on; an admin is passed on for
\* any well-formed tenant id.
C18_TenantAccess ==
    (Ran("RequireTenantAccess") /\ Authenticated) =>
        /\ ~AdminCaller =>
              (gate.next <=> (NamedID = "" \/ NamedID = gate.claims.tenantID))
        /\ (~AdminCaller /\ NamedID \in Tenants /\ NamedID # gate.claims.tenantID)
              => (gate.status = 403 /\ ~gate.next)
        /\ (AdminCaller /\ NamedID \in Tenants) => gate.next

\* C18 witness: the viewer of tenant t1 named tenant t2 in X-Tenant-ID and
\* was stopped with 403.
C18_Witness ==
    /\ Ran("RequireTenantAccess")
    /\ gate.claims = ClaimsOf(GenerateAccessToken(Viewer, 0))
    /\ gate.param = ""
    /\ gate.header = "t2"
    /\ gate.status = 403
    /\ ~gate.next

\* C19: a request whose tenant or client identifier, read by a middleware,
\* is not a well-formed UUID ends with 400 and is not passed on: under
\* Authenticate (X-Client-ID) as under RequireTenantAccess and
\* RequireClientAccess.
C19_MalformedIdentifierIs400 ==
    /\ (/\ req.mw = "Authenticate"
        /\ Finished
        /\ Reached("Bound")
        /\ req.clientHeader \notin ({""} \cup UUIDs))
           => (req.status = 400 /\ ~Reached("Dispatched"))
    /\ (/\ gate.stage = "done"
        /\ gate.mw \in {"RequireTenantAccess", "RequireClientAccess"}
        /\ Authenticated
        /\ NamedID \notin ({""} \cup UUIDs))
           => (gate.status = 400 /\ ~gate.next)

\* C20: a 403 of RequireScope or RequireAllScopes names, in its message, the
\* required scopes the caller is missing.
C20_ForbiddenNamesMissingScopes ==
    (/\ gate.stage = "done"
     /\ gate.mw \in {"RequireScope", "RequireAllScopes"}
     /\ gate.status = 403)
        => MissingRequired \subseteq Range(gate.message.names.parts)

----
(***************************************************************************)
(* Route chain claims.                                                     *)
(***************************************************************************)

\* The steps of the chain that ran before the i-th.
Before(i) == {hreq.trace[j] : j \in 1..(i - 1)}
StepsRun == Range(hreq.trace)

\* The bridge was called only after the claims check and the scope check
\* passed, for a caller that is admin or holds a scope of the route.
CalledAfterChecks ==
    \A i \in 1..Len(hreq.trace) :
        hreq.trace[i] = "Bridge" =>
            /\ {"Authenticate", "Claims", "Scope"} \subseteq Before(i)
            /\ hreq.claims # NoClaims
            /\ \/ hreq.claims.role = "admin"
               \/ Range(RouteScopes(hreq.route)) \cap hreq.claims.scopes # {}

\* C21 as stated: the checks precede every bridge call, and a 401 or 403
\* response implies that no downstream attempt was made for the request.
C21_RejectedNeverCalled ==
    /\ CalledAfterChecks
    /\ hreq.status \in {401, 403} => (hreq.bridgeCalls = 0 /\ hreq.result.attempts = 0)

\* The 401 or 403 was produced by the gateway: by Authenticate or by the
\* handler's own checks.
GatewayRejected ==
    /\ hreq.stage = "done"
    /\ hreq.status \in {401, 403}
    /\ "Bridge" \notin StepsRun

\* C21, amended: the checks precede every bridge call; a 401 or 403 that the
\* gateway produces implies no bridge call and no downstream attempt; any
\* other 401 or 403 relays the Unauthorized or Forbidden that the single
\* bridge call of the request returned.
C21_GatewayRejectionNeverCalled ==
    /\ CalledAfterChecks
    /\ GatewayRejected => (hreq.bridgeCalls = 0 /\ hreq.result.attempts = 0)
    /\ (hreq.status \in {401, 403} /\ ~GatewayRejected)
          => /\ hreq.bridgeCalls = 1
             /\ ~hreq.result.wrapped
             /\ hreq.result.attempts >= 1
             /\ hreq.result.err = (IF hreq.status = 401 THEN "Unauthorized" ELSE "Forbidden")

\* C21 witness: a non-admin caller holding only hunting:read was answered
\* 403 by Hunt's scope check, and the bridge was not called.
C21_Witness ==
    /\ hreq.stage = "done"
    /\ hreq.route = "Hunt"
    /\ hreq.claims.role = "viewer"
    /\ hreq.claims.scopes = {ScopeHuntingRead}
    /\ hreq.trace = <<"Global", "Authenticate", "Claims", "Scope">>
    /\ hreq.status = 403
    /\ hreq.bridgeCalls = 0

\* C22: on every protected route the rate limiter's admission check runs
\* before token validation and before any bridge call.
C22_LimiterFirst ==
    \A i \in 1..Len(hreq.trace) :
        hreq.trace[i] \in {"Authenticate", "Bridge"} => "RateLimit" \in Before(i)

\* C35: once the retry budget is exhausted the status answered reflects the
\* kind of the last downstream failure: 502 or 503 for unreachable, timed out
\* or 5xx, 404 for NotFound, 429 for RateLimited.
C35_ExhaustedStatusReflectsKind ==
    (hreq.stage = "done" /\ hreq.result.wrapped) =>
        CASE hreq.result.err \in {"Unavailable", "Status"} -> hreq.status \in {502, 503}
          [] hreq.result.err = "NotFound" -> hreq.status = 404
          [] hreq.result.err = "RateLimit" -> hreq.status = 429
          [] OTHER -> TRUE

\* C40: every envelope sent for an authenticated request carries, on every
\* attempt, the tenant id and the user id of the caller's validated claims.
C40_EnvelopeCarriesCallerIdentity ==
    \A i \in 1..Len(env.sent) :
        /\ env.sent[i].tenant_id = env.claims.tenantID
        /\ env.sent[i].header = env.claims.tenantID
        /\ env.sent[i].user_id = env.claims.userID

----
(***************************************************************************)
(* Rate limiter: Stop, deadlock freedom and rejected calls.                *)
(***************************************************************************)

\* Every Allow call that has started returns.
AllowReturns == \A p \in Procs : (allow[p].pc # "idle") ~> (allow[p].pc = "idle")

\* The cleanup goroutine, once returned, starts nothing.
StaysStopped == cleaner.pc = "stopped" => cleaner'.pc = "stopped"

\* C31: after Stop the cleanup goroutine terminates and starts no pass after
\* it has seen the stop signal, Allow keeps answering, and a second call of
\* Stop does no harm.
C31_StopIsClean ==
    /\ [](~stopCleanup.panicked)
    /\ stopCleanup.closed ~> (cleaner.pc = "stopped")
    /\ [][StaysStopped]_vars
    /\ AllowReturns

\* A window mutex is held only by an Allow call that is past its last Lock:
\* whoever holds a per-key lock waits for no other lock.
LockOrder ==
    \A w \in 1..Len(windows) :
        windows[w].mu # 0 =>
            /\ windows[w].mu \in Procs
            /\ allow[windows[w].mu].pc \in {"check", "finish"}
            /\ allow[windows[w].mu].win = w

\* C37: the locks are never taken in a cyclic order and every Allow call that
\* starts returns, whatever Allow calls, cleanup passes and Stop interleave.
C37_NoDeadlock == []LockOrder /\ AllowReturns

\* C37 witness: one Allow waits for rl.mu, held by a cleanup pass that waits
\* for the window mutex held by the other Allow, after Stop was called.
C37_Witness ==
    /\ stopCleanup.closed
    /\ rlmu = Cleaner
    /\ \E p, q \in Procs :
           /\ allow[p].pc = "mu"
           /\ allow[q].pc \in {"check", "finish"}
           /\ windows[allow[q].win].mu = q
           /\ requests[allow[q].key] = allow[q].win
           /\ allow[q].key \in cleaner.todo

\* The step in which a call is rejected leaves every window's timestamps
\* as they were.
RejectionRecordsNothing ==
    \A p \in Procs :
        (allow[p].pc = "finish" /\ calls'[allow[p].cid].status = "rejected") =>
            \A w \in 1..Len(windows) : windows'[w].timestamps = windows[w].timestamps

\* The admitted calls on the key of call j that lie within one window before j.
AdmittedInWindowOf(j) ==
    {i \in AdmittedOn(calls[j].key) : calls[i].now > calls[j].now - WindowSize}

\* Only admitted calls count: a window holds no more timestamps than calls
\* were admitted on its key, and a call is rejected only with at least limit
\* admitted calls in its window, however many were rejected before it.
OnlyAdmittedCount ==
    /\ \A k \in Keys :
           requests[k] # NoWindow =>
               Len(windows[requests[k]].timestamps) <= Cardinality(AdmittedOn(k))
    /\ \A j \in 1..Len(calls) :
           calls[j].status = "rejected" =>
               Cardinality(AdmittedInWindowOf(j)) >= calls[j].limit

\* C38: a rejected Allow call appends no timestamp, so rejected calls never
\* postpone the moment at which the key is admitted again.
C38_RejectedRecordsNothing == []OnlyAdmittedCount /\ [][RejectionRecordsNothing]_vars

\* C38 witness: with limit 1 and window 2, a call at time 0 was admitted, a
\* call at time 1 rejected, and the call at time 2 admitted again.
C38_Witness ==
    /\ Len(calls) = 3
    /\ \A i \in 1..3 : calls[i].key = "B" /\ calls[i].now = i - 1
    /\ calls[1].status = "admitted"
    /\ calls[2].status = "rejected"
    /\ calls[3].status = "admitted"

----
(***************************************************************************)
(* Rate limiter: locking, key isolation, window contents and responses.    *)
(***************************************************************************)

\* C23: a cleanup pass never holds rl.mu while it locks, filters or rewrites
\* the window of an individual key.
C23_TableLockNotHeldForKeyWork ==
    [][(cleaner.pc = "pass" /\ cleaner'.todo # cleaner.todo) => rlmu # Cleaner]_vars

\* Goroutine p waits for rl.mu while the cleanup pass holds it with windows
\* of other keys still to work on.
BlockedByCleanup(p) ==
    /\ allow[p].pc = "mu"
    /\ rlmu = Cleaner
    /\ cleaner.todo \ {allow[p].key} # {}

\* Goroutine p waits for a window mutex held by an Allow of another key.
BlockedByOtherKey(p) ==
    /\ allow[p].pc = "wmu"
    /\ \E q \in Procs \ {p} :
           /\ windows[allow[p].win].mu = q
           /\ allow[q].pc # "idle"
           /\ allow[q].key # allow[p].key

\* C24: no Allow is blocked on a lock that is held because of work on the
\* window of another key, by another Allow or by cleanup.
C24_UnrelatedKeysNeverContend ==
    \A p \in Procs : ~BlockedByCleanup(p) /\ ~BlockedByOtherKey(p)

\* The window of key k is left as it was by the step.
WindowUntouched(k) ==
    /\ requests'[k] = requests[k]
    /\ requests[k] # NoWindow => windows'[requests[k]] = windows[requests[k]]

\* A step of an Allow call leaves the windows of all other keys as they were.
OwnKeyOnly ==
    \A p \in Procs :
        allow'[p] # allow[p] =>
            LET key == IF allow[p].pc = "idle" THEN allow'[p].key ELSE allow[p].key
            IN \A k \in Keys \ {key} : WindowUntouched(k)

\* What key k's window holds and what its callers were told depends on the
\* admitted calls on k alone.
CountsOwnCallsOnly ==
    \A k \in Keys :
        /\ requests[k] # NoWindow =>
               LET ts == windows[requests[k]].timestamps
               IN /\ Len(ts) <= Cardinality(AdmittedOn(k))
                  /\ Range(ts) \subseteq {calls[i].now : i \in AdmittedOn(k)}
        /\ \A i \in CallsOn(k) :
               /\ calls[i].status = "admitted" =>
                      calls[i].remaining >= LimitOf(k) - Cardinality(AdmittedOn(k))
               /\ calls[i].status = "rejected" =>
                      Cardinality(AdmittedOn(k)) >= LimitOf(k)

\* C25: Allow on one key never modifies the window of another key, whose
\* remaining count is as if the calls on the first key had not happened.
C25_AllowTouchesOwnKeyOnly == []CountsOwnCallsOnly /\ [][OwnKeyOnly]_vars

\* C25 witness: after an admitted call on B, the two calls on A were told
\* remaining 1 and 0 of A's limit of 2.
C25_Witness ==
    /\ Len(calls) = 3
    /\ calls[1].key = "B" /\ calls[1].status = "admitted"
    /\ calls[2].key = "A" /\ calls[2].status = "admitted" /\ calls[2].remaining = 1
    /\ calls[3].key = "A" /\ calls[3].status = "admitted" /\ calls[3].remaining = 0
    /\ Len(windows[requests["B"]].timestamps) = 1

InWindow(ts, now) == \A t \in Range(ts) : now - WindowSize <= t /\ t <= now

\* The window after the filtering pass of the Allow call of p.
AllowFiltered ==
    \A p \in Procs :
        allow[p].pc = "check" => InWindow(windows[allow[p].win].timestamps, allow[p].now)

\* The window after the filtering pass of cleanup over key k.
CleanupFiltered ==
    \A k \in Keys :
        (cleaner.pc = "pass" /\ k \in cleaner.todo /\ k \notin cleaner'.todo)
            => InWindow(windows'[requests[k]].timestamps, cleaner.now)

\* C26: after the filtering pass of any Allow call or cleanup pass, every
\* retained timestamp lies in [now - windowSize, now] for that pass's own now.
C26_RetainedWithinWindow == []AllowFiltered /\ [][CleanupFiltered]_vars

RECURSIVE MinOf(_)
MinOf(S) ==
    LET x == CHOOSE y \in S : TRUE
    IN IF S = {x} THEN x ELSE Min(x, MinOf(S \ {x}))

\* The rejection that the step returns, measured from the oldest retained
\* timestamp.
ResetFromOldest ==
    \A p \in Procs :
        (allow[p].pc = "finish" /\ calls'[allow[p].cid].status = "rejected") =>
            LET ts == windows[allow[p].win].timestamps
                resetIn == calls'[allow[p].cid].resetIn
            IN IF Len(ts) = 0
               THEN resetIn = WindowSize
               ELSE resetIn = (MinOf(Range(ts)) + WindowSize) - allow[p].now

ResetWithinWindow ==
    \A i \in 1..Len(calls) :
        calls[i].status = "rejected" =>
            0 < calls[i].resetIn /\ calls[i].resetIn <= WindowSize

\* C27: a rejection reports resetIn = (oldest retained timestamp +
\* windowSize) - now, with 0 < resetIn <= windowSize.
C27_ResetInBounds == []ResetWithinWindow /\ [][ResetFromOldest]_vars

\* The number a client reads in a header value of one character: the digits
\* '0'..'9' are the code points 48..57, any other character is no number.
DecimalValue(s) == IF s.rune \in 48..57 THEN s.rune - 48 ELSE -1

\* C28: a rejected request is answered 429 with a Retry-After header that is
\* a number of seconds in (0, windowSize].
C28_RetryAfterSeconds ==
    \A i \in 1..Len(calls) :
        calls[i].status = "rejected" =>
            /\ calls[i].response.status = 429
            /\ DecimalValue(calls[i].response.retryAfter) \in 1..WindowSize

\* C29: TenantRateLimitMiddleware limits a tenant by the limit of its plan,
\* the built-in table overridden by baseLimits.
C29_PlanLimitApplied ==
    plan.stage = "limited" =>
        plan.limit = MergePlanLimits(plan.baseLimits)[plan.tenantPlan]

\* No Allow for key k was made within windowSize of the pass's now.
IdleKey(k) == \A i \in CallsOn(k) : cleaner.now - calls[i].now > WindowSize

\* The table as a cleanup pass leaves it.
CleanedTable ==
    (cleaner.pc = "pass" /\ cleaner'.pc = "idle") =>
        \A k \in Keys :
            /\ requests'[k] # NoWindow =>
                   \E t \in Range(windows'[requests'[k]].timestamps) :
                       t > cleaner.now - WindowSize
            /\ IdleKey(k) => requests'[k] = NoWindow

\* C30: a completed cleanup pass leaves no key that was idle for longer than
\* windowSize, and only keys with at least one in-window timestamp.
C30_CleanupRemovesIdleKeys == [][CleanedTable]_vars

\* C30 witness: the key of an admitted call, left alone for longer than
\* windowSize, is gone from the table after a cleanup pass.
C30_Witness ==
    /\ Len(calls) >= 1
    /\ calls[1].status = "admitted"
    /\ CallsOn(calls[1].key) = {1}
    /\ clock - calls[1].now > WindowSize
    /\ cleaner.pc = "idle"
    /\ requests[calls[1].key] = NoWindow

====
